---------------------------- MODULE Spec2Model ----------------------------
(***************************************************************************)
(* A model of the doc-ocr-scanner extraction pipeline:                     *)
(*   search_utils.py  normalize_number, final_dict, searching,             *)
(*                    chained_search                                       *)
(*   ocr_utils.py     fallback_table_extraction, is_scanned_pdf            *)
(*   general_utils.py extract_data_from_docs                               *)
(*                                                                         *)
(* A Python str is a sequence of one-character strings, None is the        *)
(* sentinel NoneVal, a float is a record (see PyFloat).                    *)
(***************************************************************************)
EXTENDS Integers, Sequences, FiniteSets, TLC

VARIABLES
    pc,             \* position of the program
    num_str,        \* normalize_number: its argument
    normalized,     \* normalize_number: its return value
    results,        \* final_dict / extract_data_from_docs: the result list
    ri,             \* final_dict: number of results already looped over
    summed_values,  \* final_dict: key -> running float total
    string_values,  \* final_dict: key -> set of strings, then key -> list
    search_term,    \* searching: the term of a direct call
    found,          \* searching: what the direct call returned
    text,           \* searching / chained_search: the text searched
    patterns,       \* searching / chained_search: label -> list of patterns
    initial_term,   \* chained_search: its first argument
    n,              \* chained_search: the number of hops asked for
    dev,            \* chained_search: trace mode
    current_term,   \* chained_search: local
    current_value,  \* chained_search: local
    chain,          \* chained_search: local, the successful hops
    hop,            \* chained_search: the loop variable i of range(n)
    calls,          \* history: the searching calls chained_search has made
    output,         \* chained_search: its return value
    image_path,     \* fallback_table_extraction: the file at its argument
    pdf_path,       \* fallback_table_extraction: local
    scanned,        \* fallback_table_extraction: local
    tables_camelot_lattice,  \* fallback_table_extraction: local
    tables_camelot_stream,   \* fallback_table_extraction: local
    tables_tabula_lattice,   \* fallback_table_extraction: local
    tables_tabula_stream,    \* fallback_table_extraction: local
    table_dict,     \* fallback_table_extraction: its return value
    failures,       \* history: the steps of fallback_table_extraction that failed
    docs,           \* extract_data_from_docs: zip(image_names, texts, image_paths)
    terms,          \* extract_data_from_docs: the target terms
    di,             \* extract_data_from_docs: index of the current document
    ti,             \* extract_data_from_docs: index of the current term
    serial,         \* extract_data_from_docs: local
    searching_serial, \* extract_data_from_docs: whether serials are searched
    yielded,        \* history: the (di, ti) whose chained search gave a result
    recorded,       \* history: the (di, ti) whose chained search was recorded
    invoked,        \* history: the (di, ti) for which the table fallback ran
    tables_list,    \* comparing_tables: its argument
    unique_tables,  \* comparing_tables: local, then its return value
    seen_signatures, \* comparing_tables: local
    ci,             \* comparing_tables: index of the table of the iteration
    kept,           \* history: the positions of tables_list that were kept
    first_pass,     \* history: argument and result of the call before this one
    image_paths,    \* run_clean_and_ocr: the pages of the batch, in input order
    slots,          \* pool.map: position -> what its task gave, once finished
    finish_order,   \* history: the positions in the order their tasks finished
    step_failed,    \* history: position -> the step of process_image that failed
    texts,          \* run_clean_and_ocr: its return value
    excel_file,     \* save_results_if_any: its argument ("" when not running)
    written,        \* save_results_if_any: whether the .xlsx file was written
    save_log,       \* save_results_if_any: what it logged
    save_ret,       \* save_results_if_any: its return value
    folder_path_,   \* main: local
    escaped,        \* main: the exception that left the try body, if any
    exit_status,    \* main: the status the process ended with (-1 while running)
    cleanup_runs,   \* history: how many times safe_cleanup was called
    cleaned,        \* safe_cleanup: whether the temporary files were removed
    all_keywords    \* main: the keywords.json entry of the document type

numVars    == <<num_str, normalized>>
aggVars    == <<results, ri, summed_values, string_values>>
searchVars == <<search_term, found>>
inputVars  == <<text, patterns>>
chainVars  == <<initial_term, n, dev, current_term, current_value, chain, hop,
                calls, output>>
fbLocals   == <<pdf_path, scanned, tables_camelot_lattice, tables_camelot_stream,
                tables_tabula_lattice, tables_tabula_stream>>
fbVars     == <<image_path, fbLocals, table_dict, failures>>
docVars    == <<docs, terms, di, ti, serial, searching_serial, yielded, recorded,
                invoked>>
cmpVars    == <<tables_list, unique_tables, seen_signatures, ci, kept, first_pass>>
ocrVars    == <<image_paths, slots, finish_order, step_failed, texts>>
saveVars   == <<excel_file, written, save_log, save_ret>>
mainVars   == <<folder_path_, escaped, exit_status, cleanup_runs, cleaned>>
kwVars     == <<all_keywords>>
auxVars    == <<cmpVars, ocrVars, saveVars, mainVars, kwVars>>
vars       == <<pc, numVars, aggVars, searchVars, inputVars, chainVars, fbVars, docVars,
                auxVars>>

---------------------------------------------------------------------------
(* Python values *)

NoneVal == <<"None">>

Digits     == {"0", "1", "2", "3", "4", "5", "6", "7", "8", "9"}
Whitespace == {" ", "\n", "\t"}

DigitVal(c) == CASE c = "0" -> 0 [] c = "1" -> 1 [] c = "2" -> 2 [] c = "3" -> 3
                 [] c = "4" -> 4 [] c = "5" -> 5 [] c = "6" -> 6 [] c = "7" -> 7
                 [] c = "8" -> 8 [] c = "9" -> 9

\* All sequences over S of length at most n.
StrsUpTo(S, len) == UNION {[1..k -> S] : k \in 0..len}

RECURSIVE Pow10(_)
Pow10(e) == IF e = 0 THEN 1 ELSE 10 * Pow10(e - 1)

\* str.replace(old, new) for a one-character old; new is a str (maybe empty).
RECURSIVE Replace(_, _, _)
Replace(s, old, new) ==
    IF s = <<>> THEN <<>>
    ELSE (IF Head(s) = old THEN new ELSE <<Head(s)>>) \o Replace(Tail(s), old, new)

Contains(s, c) == \E k \in 1..Len(s) : s[k] = c

\* str.strip(): leading and trailing whitespace removed.
RECURSIVE LStrip(_)
LStrip(s) == IF s # <<>> /\ Head(s) \in Whitespace THEN LStrip(Tail(s)) ELSE s

RECURSIVE RStrip(_)
RStrip(s) == IF s # <<>> /\ s[Len(s)] \in Whitespace
             THEN RStrip(SubSeq(s, 1, Len(s) - 1)) ELSE s

Strip(s) == RStrip(LStrip(s))

---------------------------------------------------------------------------
(* Python float: a finite decimal m / 10^e in lowest form, or nan, or      *)
(* +-inf.  Arithmetic on finite values is exact decimal arithmetic.        *)

RECURSIVE Reduce(_, _)
Reduce(m, e) == IF e > 0 /\ m % 10 = 0 THEN Reduce(m \div 10, e - 1) ELSE <<m, e>>

Num(m, e) == LET r == Reduce(m, e) IN [kind |-> "num", m |-> r[1], e |-> r[2]]
NaN       == [kind |-> "nan", m |-> 0, e |-> 0]
Inf(sgn)  == [kind |-> "inf", m |-> sgn, e |-> 0]

FloatAdd(a, b) ==
    IF a.kind = "nan" \/ b.kind = "nan" THEN NaN
    ELSE IF a.kind = "inf" /\ b.kind = "inf" THEN (IF a.m = b.m THEN a ELSE NaN)
    ELSE IF a.kind = "inf" THEN a
    ELSE IF b.kind = "inf" THEN b
    ELSE LET e == IF a.e > b.e THEN a.e ELSE b.e
         IN  Num(a.m * Pow10(e - a.e) + b.m * Pow10(e - b.e), e)

IsDigits(s) == \A k \in 1..Len(s) : s[k] \in Digits

RECURSIVE DigitsVal(_)
DigitsVal(s) == IF s = <<>> THEN 0
                ELSE 10 * DigitsVal(SubSeq(s, 1, Len(s) - 1)) + DigitVal(s[Len(s)])

LowerLetters == <<"a", "b", "c", "d", "e", "f", "g", "h", "i", "j", "k", "l", "m",
                  "n", "o", "p", "q", "r", "s", "t", "u", "v", "w", "x", "y", "z">>
UpperLetters == <<"A", "B", "C", "D", "E", "F", "G", "H", "I", "J", "K", "L", "M",
                  "N", "O", "P", "Q", "R", "S", "T", "U", "V", "W", "X", "Y", "Z">>

Range(q) == {q[k] : k \in DOMAIN q}

Letters == Range(LowerLetters) \cup Range(UpperLetters)

LowerMap == [c \in Range(UpperLetters) |->
                LowerLetters[CHOOSE k \in 1..26 : UpperLetters[k] = c]]

\* str.lower() on one character (ASCII).
Lower(c) == IF c \in DOMAIN LowerMap THEN LowerMap[c] ELSE c

LowerStr(s) == [k \in 1..Len(s) |-> Lower(s[k])]

\* The position of the only "." of an unsigned decimal literal, 0 if none.
DotPos(s) == IF Contains(s, ".") THEN CHOOSE k \in 1..Len(s) : s[k] = "." ELSE 0

\* digits [ "." [digits] ]  |  "." digits
IsDecimal(s) ==
    LET d == DotPos(s)
    IN  IF d = 0 THEN s # <<>> /\ IsDigits(s)
        ELSE /\ IsDigits(SubSeq(s, 1, d - 1))
             /\ IsDigits(SubSeq(s, d + 1, Len(s)))
             /\ Len(s) > 1

DecimalVal(s) ==
    LET d == DotPos(s)
    IN  IF d = 0 THEN Num(DigitsVal(s), 0)
        ELSE Num(DigitsVal(SubSeq(s, 1, d - 1) \o SubSeq(s, d + 1, Len(s))), Len(s) - d)

SpecialFloats == { <<"n", "a", "n">>, <<"i", "n", "f">>,
                   <<"i", "n", "f", "i", "n", "i", "t", "y">> }

\* float(s) for a str s: [ok |-> FALSE] stands for ValueError.  The literal
\* is stripped of surrounding whitespace, then: an optional sign followed by
\* a decimal literal, or by nan / inf / infinity in any letter case.
\* (Exponents and digit-group underscores need "e" and "_".)
PyFloat(s) ==
    LET t    == Strip(s)
        sgn  == IF t # <<>> /\ Head(t) = "-" THEN -1 ELSE 1
        body == IF t # <<>> /\ Head(t) \in {"-", "+"} THEN Tail(t) ELSE t
    IN  IF IsDecimal(body)
          THEN LET v == DecimalVal(body) IN [ok |-> TRUE, f |-> Num(sgn * v.m, v.e)]
        ELSE IF LowerStr(body) = <<"n", "a", "n">> THEN [ok |-> TRUE, f |-> NaN]
        ELSE IF LowerStr(body) \in SpecialFloats THEN [ok |-> TRUE, f |-> Inf(sgn)]
        ELSE [ok |-> FALSE, f |-> NaN]

---------------------------------------------------------------------------
(* search_utils.normalize_number *)

\* What normalize_number returns: a float, or a str.
RetFloat(f) == [float |-> TRUE,  f |-> f,   s |-> <<>>]
RetStr(s)   == [float |-> FALSE, f |-> NaN, s |-> s]

normalize_number(arg) ==
    LET s1 == Replace(arg, " ", <<>>)
        s2 == IF Contains(s1, ",") /\ Contains(s1, ".") THEN Replace(s1, ",", <<>>)
              ELSE IF Contains(s1, ",") THEN Replace(s1, ",", <<".">>)
              ELSE s1
        r  == PyFloat(s2)
    IN  IF r.ok THEN RetFloat(r.f) ELSE RetStr(s2)

---------------------------------------------------------------------------
(* Inputs of normalize_number *)

MaxNumLen == 4

NumAlphabet == {"1", "0", ".", ",", " ", "a", "-"}

NumExamples == { <<"1", ".", "2", "3", "4", ",", "5", "6">>,
                 <<"1", ",", "2", "3", "4", ".", "5", "6">>,
                 <<"a", "b", "c">>,
                 <<"n", "/", "a">>,
                 <<"n", "a", "n">>,
                 <<"1", ",", "5", "\n">> }

NumInputs == StrsUpTo(NumAlphabet, MaxNumLen) \cup NumExamples

\* A value that is a list or None.
PyList(items) == [none |-> FALSE, items |-> items]
PyNone        == [none |-> TRUE,  items |-> <<>>]

IdleAgg == /\ results = <<>>
           /\ ri = 0
           /\ summed_values = <<>>
           /\ string_values = <<>>

IdleFallback == /\ image_path = [suffix |-> ""]
                /\ pdf_path = NoneVal
                /\ scanned = FALSE
                /\ tables_camelot_lattice = PyList(<<>>)
                /\ tables_camelot_stream = PyList(<<>>)
                /\ tables_tabula_lattice = PyList(<<>>)
                /\ tables_tabula_stream = PyList(<<>>)
                /\ table_dict = <<>>
                /\ failures = {}

IdleDocs == /\ docs = <<>>
            /\ terms = <<>>
            /\ di = 0
            /\ ti = 0
            /\ serial = NoneVal
            /\ searching_serial = FALSE
            /\ yielded = {}
            /\ recorded = {}
            /\ invoked = {}

IdleCompare == /\ tables_list = <<>>
               /\ unique_tables = <<>>
               /\ seen_signatures = {}
               /\ ci = 0
               /\ kept = <<>>
               /\ first_pass = <<>>

IdleOcr == /\ image_paths = <<>>
           /\ slots = <<>>
           /\ finish_order = <<>>
           /\ step_failed = <<>>
           /\ texts = <<>>

IdleSave == /\ excel_file = ""
            /\ written = FALSE
            /\ save_log = <<>>
            /\ save_ret = "none"

IdleMain == /\ folder_path_ = NoneVal
            /\ escaped = "none"
            /\ exit_status = -1
            /\ cleanup_runs = 0
            /\ cleaned = FALSE

\* No keywords.json entry loaded.
NoKeywords == [form |-> "none", terms |-> <<>>, dict |-> <<>>]

IdleKeywords == all_keywords = NoKeywords

IdleAux == IdleCompare /\ IdleOcr /\ IdleSave /\ IdleMain /\ IdleKeywords

IdleSearch == /\ search_term = <<>>
              /\ found = [key |-> NoneVal, value |-> NoneVal, via |-> "none"]

IdleInput == /\ text = <<>>
             /\ patterns = <<>>

IdleChain == /\ initial_term = <<>>
             /\ n = 0
             /\ dev = FALSE
             /\ current_term = <<>>
             /\ current_value = NoneVal
             /\ chain = <<>>
             /\ hop = 0
             /\ calls = <<>>
             /\ output = [type |-> "none", key |-> NoneVal, value |-> NoneVal, list |-> <<>>]

NumberInit == /\ pc = "nn_call"
              /\ num_str \in NumInputs
              /\ normalized = RetStr(NoneVal)
              /\ IdleAgg /\ IdleSearch /\ IdleInput /\ IdleChain /\ IdleFallback /\ IdleDocs /\ IdleAux

\* One call normalize_number(num_str).
NormalizeNumber == /\ pc = "nn_call"
                   /\ normalized' = normalize_number(num_str)
                   /\ pc' = "nn_returned"
                   /\ UNCHANGED <<num_str, aggVars, searchVars, inputVars, chainVars, fbVars, docVars, auxVars>>

NumberNext == NormalizeNumber

SpecNumber == NumberInit /\ [][NumberNext]_vars

---------------------------------------------------------------------------
(* Claims about normalize_number *)

Str_1p234c56 == <<"1", ".", "2", "3", "4", ",", "5", "6">>
Str_1c234p56 == <<"1", ",", "2", "3", "4", ".", "5", "6">>

\* C1: normalize_number maps both "1.234,56" and "1,234.56" to the float
\* 1234.56.
C1_BothNotationsGive1234p56 ==
    (pc = "nn_returned" /\ num_str \in {Str_1p234c56, Str_1c234p56})
        => normalized = RetFloat(Num(123456, 2))

\* C3: when the value is not convertible to a number, normalize_number
\* returns its argument unchanged, character for character.
C3_NonNumericReturnedUnchanged ==
    (pc = "nn_returned" /\ ~normalized.float) => normalized.s = num_str

---------------------------------------------------------------------------
(* search_utils.final_dict *)

\* A Python dict as a function on its key set.
EmptyDict == <<>>

DictGet(d, k, default) == IF k \in DOMAIN d THEN d[k] ELSE default

DictPut(d, k, v) == [x \in (DOMAIN d) \cup {k} |-> IF x = k THEN v ELSE d[x]]

Result(image, ser, key, value) ==
    [Image |-> image, Serial |-> ser, Key |-> key, Value |-> value]

\* The body of the loop over results, for one result: the two dicts after it.
FinalDictBody_NoSkip(sv, strv, result) ==
    LET key == result.Key
        nrm == normalize_number(result.Value)
    IN  IF nrm.float
          THEN <<DictPut(sv, key, FloatAdd(DictGet(sv, key, Num(0, 0)), nrm.f)), strv>>
          ELSE <<sv, DictPut(strv, key, DictGet(strv, key, {}) \cup {nrm.s})>>

FinalDictBody(sv, strv, result) ==
    LET key   == result.Key
        value == result.Value
        nrm   == normalize_number(value)
    IN  IF key = NoneVal \/ value = NoneVal THEN <<sv, strv>>
        ELSE IF nrm.float
          THEN <<DictPut(sv, key, FloatAdd(DictGet(sv, key, Num(0, 0)), nrm.f)), strv>>
          ELSE <<sv, DictPut(strv, key, DictGet(strv, key, {}) \cup {nrm.s})>>

\* The lists list(v) can give for a set v: every order of its elements.
ListsOf(S) == {q \in [1..Cardinality(S) -> S] : \A x \in S : \E k \in DOMAIN q : q[k] = x}

\* for result in results: one iteration.
FinalDictLoop ==
    /\ pc = "fd_loop"
    /\ ri < Len(results)
    /\ LET d == FinalDictBody(summed_values, string_values, results[ri + 1])
       IN  /\ summed_values' = d[1]
           /\ string_values' = d[2]
    /\ ri' = ri + 1
    /\ UNCHANGED <<pc, results, numVars, searchVars, inputVars, chainVars, fbVars, docVars, auxVars>>

\* string_values = {k: list(v) ...}; return summed_values, string_values.
FinalDictReturn ==
    /\ pc = "fd_loop"
    /\ ri = Len(results)
    /\ string_values' \in [DOMAIN string_values -> UNION {ListsOf(string_values[k]) : k \in DOMAIN string_values}]
    /\ \A k \in DOMAIN string_values : string_values'[k] \in ListsOf(string_values[k])
    /\ pc' = "fd_returned"
    /\ UNCHANGED <<results, ri, summed_values, numVars, searchVars, inputVars, chainVars, fbVars, docVars, auxVars>>

---------------------------------------------------------------------------
(* Inputs of final_dict *)

MaxResults == 3

Str_total == <<"t", "o", "t", "a", "l">>
Str_nit   == <<"n", "i", "t">>
Str_100   == <<"1", "0", "0">>
Str_50c5  == <<"5", "0", ",", "5">>
Str_na    == <<"n", "/", "a">>
Str_n_a   == <<"n", " ", "/", "a">>
Str_abc   == <<"a", "b", "c">>
Str_img   == <<"a", ".", "p", "n", "g">>

AggEntries == { Result(Str_img, NoneVal, Str_total, Str_100),
                Result(Str_img, NoneVal, Str_total, Str_50c5),
                Result(Str_img, NoneVal, Str_total, Str_na),
                Result(Str_img, NoneVal, Str_total, Str_n_a),
                Result(Str_img, NoneVal, Str_total, Str_abc),
                Result(Str_img, NoneVal, Str_total, NoneVal),
                Result(Str_img, NoneVal, NoneVal,   Str_100),
                Result(Str_img, NoneVal, Str_nit,   Str_100),
                Result(Str_img, NoneVal, Str_nit,   Str_na) }

IdleNum == /\ num_str = <<>>
           /\ normalized = RetStr(NoneVal)

AggregateInit == /\ pc = "fd_loop"
                 /\ results \in StrsUpTo(AggEntries, MaxResults)
                 /\ ri = 0
                 /\ summed_values = EmptyDict
                 /\ string_values = EmptyDict
                 /\ IdleNum /\ IdleSearch /\ IdleInput /\ IdleChain /\ IdleFallback /\ IdleDocs /\ IdleAux

AggregateNext == FinalDictLoop \/ FinalDictReturn

SpecAggregate == AggregateInit /\ [][AggregateNext]_vars

---------------------------------------------------------------------------
(* Claims about final_dict *)

\* The results that have both a Key and a Value, in list order.
Present(rs) == SelectSeq(rs, LAMBDA r : r.Key # NoneVal /\ r.Value # NoneVal)

IsNumeric(r) == normalize_number(r.Value).float

\* The sum, in list order, of the numeric normalizations of the Values of
\* the present results of rs with key k.
RECURSIVE NumericSum(_, _)
NumericSum(rs, k) ==
    IF rs = <<>> THEN Num(0, 0)
    ELSE LET r    == rs[Len(rs)]
             rest == NumericSum(SubSeq(rs, 1, Len(rs) - 1), k)
         IN  IF r.Key = k /\ IsNumeric(r)
               THEN FloatAdd(rest, normalize_number(r.Value).f) ELSE rest

NumericKeys(rs) == {rs[j].Key : j \in {j \in DOMAIN rs : IsNumeric(rs[j])}}
StringKeys(rs)  == {rs[j].Key : j \in {j \in DOMAIN rs : ~IsNumeric(rs[j])}}
StringsOf(rs, k) ==
    {normalize_number(rs[j].Value).s : j \in {j \in DOMAIN rs : rs[j].Key = k /\ ~IsNumeric(rs[j])}}

NoDuplicates(q) == \A a, b \in DOMAIN q : q[a] = q[b] => a = b

SpecExampleResults == << Result(Str_img, NoneVal, Str_total, Str_100),
                         Result(Str_img, NoneVal, Str_total, Str_50c5),
                         Result(Str_img, NoneVal, Str_total, Str_na) >>

\* C2: final_dict returns (summed, strings) where summed[K] is the sum of
\* the numeric normalizations of the Values of the results with Key K,
\* strings[K] holds each distinct non-numeric normalized Value of Key K
\* exactly once, results with a missing Key or Value contribute to neither,
\* and "100", "50,5", "n/a" under "total" give 150.5 and ["n/a"].
C2_FinalDictAggregates ==
    pc = "fd_returned" =>
        LET rs == Present(results)
        IN  /\ DOMAIN summed_values = NumericKeys(rs)
            /\ \A k \in DOMAIN summed_values : summed_values[k] = NumericSum(rs, k)
            /\ DOMAIN string_values = StringKeys(rs)
            /\ \A k \in DOMAIN string_values :
                   /\ NoDuplicates(string_values[k])
                   /\ {string_values[k][j] : j \in DOMAIN string_values[k]} = StringsOf(rs, k)
            /\ results = SpecExampleResults =>
                   /\ summed_values = (Str_total :> Num(1505, 1))
                   /\ string_values = (Str_total :> <<Str_na>>)

\* A run of final_dict over results that mix numeric, non-numeric,
\* duplicate-after-normalization and missing entries.
C2_Witness ==
    /\ pc = "fd_returned"
    /\ Len(results) = 3
    /\ \E j \in DOMAIN results : results[j].Value = NoneVal
    /\ \E j \in DOMAIN results : results[j].Value = Str_n_a
    /\ \E j \in DOMAIN results : results[j].Value = Str_50c5

---------------------------------------------------------------------------
\* Regular expressions of searching, each computed as re computes it

\* The number 100 of (.{0,100}): the longest snippet after the term.
SnippetMax == 100

SepChars     == Whitespace \cup {":", "=", "-"}   \* [\s:=-]
GenericSeps  == Whitespace \cup {":", "-"}        \* [:\s-]
AlnumChars   == Letters \cup Digits               \* [A-Za-z0-9]
WordChars    == AlnumChars \cup {"_"}             \* \w (ASCII)

\* needle matches hay at position p, ignoring letter case.
MatchesAtCI(needle, hay, p) ==
    /\ p + Len(needle) - 1 <= Len(hay)
    /\ \A k \in 1..Len(needle) : Lower(hay[p + k - 1]) = Lower(needle[k])

\* The positions of hay where needle occurs, ignoring letter case.
OccurrencesCI(needle, hay) == {p \in 1..(Len(hay) + 1) : MatchesAtCI(needle, hay, p)}

Min(S) == CHOOSE x \in S : \A y \in S : x <= y
Max(S) == CHOOSE x \in S : \A y \in S : x >= y

\* The first position >= p of s whose character is not in C (Len(s) + 1 if none).
RunEnd(s, p, C) == Min({q \in p..(Len(s) + 1) : q = Len(s) + 1 \/ s[q] \notin C})

\* The first position >= p of s whose character is in C (Len(s) + 1 if none).
RunEndIn(s, p, C) == Min({q \in p..(Len(s) + 1) : q = Len(s) + 1 \/ s[q] \in C})

IsDigitAt(s, p) == p >= 1 /\ p <= Len(s) /\ s[p] \in Digits

\* (?:[.,]\d{3})* from position q: the position after the last group.
RECURSIVE ThousandsEnd(_, _)
ThousandsEnd(s, q) ==
    IF /\ q <= Len(s) /\ s[q] \in {".", ","}
       /\ IsDigitAt(s, q + 1) /\ IsDigitAt(s, q + 2) /\ IsDigitAt(s, q + 3)
    THEN ThousandsEnd(s, q + 4) ELSE q

\* The match of number_regex at start p: the position after it.
\*   [-+]? \d{1,3} (?:[.,]\d{3})* (?:[.,]\d+)?
NumberEnd(s, p) ==
    LET q0 == IF s[p] \in {"-", "+"} THEN p + 1 ELSE p
        r  == RunEnd(s, q0, Digits)
        q1 == IF r - q0 > 3 THEN q0 + 3 ELSE r
        q2 == ThousandsEnd(s, q1)
    IN  IF q2 <= Len(s) /\ s[q2] \in {".", ","} /\ IsDigitAt(s, q2 + 1)
        THEN RunEnd(s, q2 + 1, Digits) ELSE q2

NumberStarts(s) ==
    {p \in 1..Len(s) : \/ s[p] \in Digits
                       \/ (s[p] \in {"-", "+"} /\ IsDigitAt(s, p + 1))}

\* re.search(number_regex, s): the matched text, NoneVal if no match.
NumberMatch(s) ==
    IF NumberStarts(s) = {} THEN NoneVal
    ELSE LET p == Min(NumberStarts(s)) IN SubSeq(s, p, NumberEnd(s, p) - 1)

\* \b at position p of s (between s[p-1] and s[p]).
Boundary(s, p) ==
    LET before == p >= 2 /\ p - 1 <= Len(s) /\ s[p - 1] \in WordChars
        after  == p >= 1 /\ p <= Len(s) /\ s[p] \in WordChars
    IN  before # after

\* \b([A-Za-z0-9]+)\b : a maximal alphanumeric run with \b on both sides
\* (inside the run no position is a \b, so only the whole run can match).
AlnumStarts(s) ==
    {p \in 1..Len(s) : /\ s[p] \in AlnumChars
                       /\ Boundary(s, p)
                       /\ Boundary(s, RunEnd(s, p, AlnumChars))}

AlnumMatch(s) ==
    IF AlnumStarts(s) = {} THEN NoneVal
    ELSE LET p == Min(AlnumStarts(s)) IN SubSeq(s, p, RunEnd(s, p, AlnumChars) - 1)

\* ([a-zA-Z]+)
WordMatch(s) ==
    LET p == RunEndIn(s, 1, Letters)
    IN  IF p > Len(s) THEN NoneVal ELSE SubSeq(s, p, RunEnd(s, p, Letters) - 1)

---------------------------------------------------------------------------
\* Custom patterns.  A pattern is one of two regex shapes over a literal
\* label L, each with exactly one capturing group:
\*   generic   L, then [:\s-] any number of times, then the group (\S+):
\*             what normalize_keywords builds from a plain term
\*   rest      L, then the group ( .* ): a hand-written keywords.json entry
\* searching applies both with re.IGNORECASE | re.DOTALL.

Generic(label) == [kind |-> "generic", label |-> label]
Rest(label)    == [kind |-> "rest",    label |-> label]

\* Where the group (\S+) of a generic pattern starts when L matched up to
\* position j - 1: after the longest run of separators that leaves a
\* non-whitespace character to capture (0 if there is none).
GenericCaptureStart(txt, j) ==
    LET e  == RunEnd(txt, j, GenericSeps)
        qs == {q \in j..e : q <= Len(txt) /\ txt[q] \notin Whitespace}
    IN  IF qs = {} THEN 0 ELSE Max(qs)

\* The occurrences of the label at which the whole pattern matches.
PatternStarts(pat, txt) ==
    IF pat.kind = "generic"
      THEN {p \in OccurrencesCI(pat.label, txt) :
                GenericCaptureStart(txt, p + Len(pat.label)) # 0}
      ELSE OccurrencesCI(pat.label, txt)

\* re.findall(regex, text, re.IGNORECASE | re.DOTALL): whether the list is
\* non-empty, and its first element (group 1 of the leftmost match).
FindAllFirst(pat, txt) ==
    LET ps == PatternStarts(pat, txt)
    IN  IF ps = {} THEN [matched |-> FALSE, capture |-> <<>>]
        ELSE LET j == Min(ps) + Len(pat.label)
             IN  IF pat.kind = "generic"
                   THEN LET q == GenericCaptureStart(txt, j)
                        IN  [matched |-> TRUE,
                             capture |-> SubSeq(txt, q, RunEnd(txt, q, {c \in Range(txt) : c \notin Whitespace}) - 1)]
                   ELSE [matched |-> TRUE, capture |-> SubSeq(txt, j, Len(txt))]

---------------------------------------------------------------------------
\* search_utils.searching (return_all = False, as chained_search calls it)

\* What searching returns: the tuple (key, value); via records which part
\* of the function produced it: "pattern" (line 20) or "proximity" (from
\* line 24 on).
Found(key, value, via) == [key |-> key, value |-> value, via |-> via]

\* patterns[search_term.lower()] when patterns is non-empty and has the key.
RegexList(term, pats) ==
    IF LowerStr(term) \in DOMAIN pats THEN pats[LowerStr(term)] ELSE <<>>

\* Lines 29-45: the value after the occurrence of the term at position i.
ProximityAt(term, txt, i) ==
    LET matched == SubSeq(txt, i, i + Len(term) - 1)
        j       == RunEnd(txt, i + Len(term), SepChars)
        last    == IF Len(txt) < j + SnippetMax - 1 THEN Len(txt)
                   ELSE j + SnippetMax - 1
        snippet == SubSeq(txt, j, last)
        value   == IF NumberMatch(snippet) # NoneVal THEN NumberMatch(snippet)
                   ELSE IF AlnumMatch(snippet) # NoneVal THEN AlnumMatch(snippet)
                   ELSE WordMatch(snippet)
    IN  Found(matched, value, "proximity")

\* Lines 24-45: the proximity heuristic.
Proximity_MissKeepsTerm(term, txt) ==
    LET occ == OccurrencesCI(term, txt)
    IN  IF occ = {} THEN Found(term, NoneVal, "proximity")
        ELSE ProximityAt(term, txt, Min(occ))

Proximity(term, txt) ==
    LET occ == OccurrencesCI(term, txt)
    IN  IF occ = {} THEN Found(NoneVal, NoneVal, "proximity")
        ELSE ProximityAt(term, txt, Min(occ))

\* Lines 11-20: the first pattern of the list, from position k on, that
\* matches decides; none matching falls through to line 24.
RECURSIVE SearchPatterns(_, _, _, _)
SearchPatterns(term, txt, regex_list, k) ==
    IF k > Len(regex_list) THEN Proximity(term, txt)
    ELSE LET m == FindAllFirst(regex_list[k], txt)
         IN  IF m.matched THEN Found(term, Strip(m.capture), "pattern")
             ELSE SearchPatterns(term, txt, regex_list, k + 1)

searching_ProximityFirst(term, txt, pats) ==
    LET r == Proximity(term, txt)
    IN  IF r.value # NoneVal THEN r
        ELSE SearchPatterns(term, txt, RegexList(term, pats), 1)

searching(term, txt, pats) ==
    SearchPatterns(term, txt, RegexList(term, pats), 1)

---------------------------------------------------------------------------
\* A direct call searching(search_term, text, patterns)

MaxTextLen == 4

SearchAlphabet == {"t", "T", "a", "1", ":", " "}

Str_t == <<"t">>
Str_T == <<"T">>
Str_a == <<"a">>
Str_b == <<"b">>

SearchTerms == {Str_t, Str_T}

SearchExamples ==
    { <<"t", "o", "t", "a", "l", ":", " ", "4", "5", ".", "9", "9">>,
      <<"t", ":", " ", "1", "2", "3", "4">>,
      <<"t", "=", "1", ".", "2", "3", "4", ",", "5", "6">>,
      <<"T", " ", "-", " ", "a", "_", "b">>,
      <<"a", ":", " ", "\n", "1", "\n", "t", ":", " ", "-", "1", ",", "5">>,
      <<"a", " ", "t", ":", " ", "_">> }

\* patterns as main builds it: empty; the list form ["t"] through
\* normalize_keywords; and two term -> patterns mappings of keywords.json.
PatternSets ==
    { EmptyDict,
      (Str_t :> <<Generic(Str_t)>>),
      (Str_t :> <<Rest(Str_a), Generic(Str_t)>>),
      (Str_t :> <<Generic(<<"a", ":">>), Rest(Str_t)>>) }

SearchInit == /\ pc = "s_call"
              /\ search_term \in SearchTerms
              /\ text \in StrsUpTo(SearchAlphabet, MaxTextLen) \cup SearchExamples
              /\ patterns \in PatternSets
              /\ found = [key |-> NoneVal, value |-> NoneVal, via |-> "none"]
              /\ IdleNum /\ IdleAgg /\ IdleChain /\ IdleFallback /\ IdleDocs /\ IdleAux

Searching == /\ pc = "s_call"
             /\ found' = searching(search_term, text, patterns)
             /\ pc' = "s_returned"
             /\ UNCHANGED <<search_term, inputVars, numVars, aggVars, chainVars, fbVars, docVars, auxVars>>

SearchNext == Searching

SpecSearch == SearchInit /\ [][SearchNext]_vars

---------------------------------------------------------------------------
\* search_utils.chained_search

Falsy(v) == v = NoneVal \/ v = <<>>

RetTuple(key, value) == [type |-> "tuple", key |-> key, value |-> value, list |-> <<>>]
RetList(list)        == [type |-> "list", key |-> NoneVal, value |-> NoneVal, list |-> list]

Call(term, r) == [term |-> term, key |-> r.key, value |-> r.value]

\* Line 208: what chained_search returns when n == 0.
ZeroHopReturn_InitialTerm(term, txt, pats) ==
    LET r == searching(term, txt, pats)
    IN  IF Falsy(r.value) THEN RetTuple(NoneVal, NoneVal) ELSE RetTuple(term, r.value)

ZeroHopReturn(term, txt, pats) ==
    LET r == searching(term, txt, pats) IN RetTuple(r.key, r.value)

\* Lines 218-220: what chained_search returns after the loop.
LoopReturn_LastKey(first, value, hops, trace) ==
    IF trace THEN RetList(hops)
    ELSE IF Falsy(value) THEN RetTuple(NoneVal, NoneVal)
    ELSE RetTuple(hops[Len(hops)][1], value)

LoopReturn(first, value, hops, trace) ==
    IF trace THEN RetList(hops)
    ELSE IF Falsy(value) THEN RetTuple(NoneVal, NoneVal)
    ELSE RetTuple(first, value)

\* Line 212: whether the loop breaks on the result r of a searching call.
Breaks_OnlyMissingKey(r) == Falsy(r.key)

Breaks(r) == Falsy(r.key) \/ Falsy(r.value)

\* Lines 203-208: the locals, and the direct return when n == 0.
ChainedSearchCall ==
    /\ pc = "cs_call"
    /\ current_term' = initial_term
    /\ current_value' = NoneVal
    /\ chain' = <<>>
    /\ hop' = 0
    /\ IF n = 0
         THEN /\ output' = ZeroHopReturn(initial_term, text, patterns)
              /\ calls' = Append(calls, Call(initial_term, searching(initial_term, text, patterns)))
              /\ pc' = "cs_returned"
         ELSE /\ pc' = "cs_loop"
              /\ UNCHANGED <<output, calls>>
    /\ UNCHANGED <<initial_term, n, dev, inputVars, numVars, aggVars, searchVars, fbVars, docVars, auxVars>>

\* Lines 210-216: one iteration of for i in range(n).
ChainedSearchHop ==
    /\ pc = "cs_loop"
    /\ hop < n
    /\ LET r == searching(current_term, text, patterns)
       IN  /\ calls' = Append(calls, Call(current_term, r))
           /\ IF Breaks(r)
                THEN /\ pc' = "cs_after_loop"
                     /\ UNCHANGED <<current_term, current_value, chain, hop>>
                ELSE /\ current_term' = r.value
                     /\ current_value' = r.value
                     /\ chain' = Append(chain, <<r.key, r.value>>)
                     /\ hop' = hop + 1
                     /\ pc' = IF hop + 1 = n THEN "cs_after_loop" ELSE "cs_loop"
    /\ UNCHANGED <<initial_term, n, dev, output, inputVars, numVars, aggVars, searchVars, fbVars, docVars, auxVars>>

\* Lines 218-220.
ChainedSearchReturn ==
    /\ pc = "cs_after_loop"
    /\ output' = LoopReturn(initial_term, current_value, chain, dev)
    /\ pc' = "cs_returned"
    /\ UNCHANGED <<initial_term, n, dev, current_term, current_value, chain, hop,
                   calls, inputVars, numVars, aggVars, searchVars, fbVars, docVars, auxVars>>

ChainNext == ChainedSearchCall \/ ChainedSearchHop \/ ChainedSearchReturn

---------------------------------------------------------------------------
\* Inputs of chained_search

MaxHops == 3

MaxChainLen == 5

ChainAlphabet == {"a", "b", " "}

Str_A == <<"A">>

ChainTerms == {Str_a, Str_A}

ChainExamples ==
    { <<"a", ":", " ", "b", "\n", "b", ":", " ", "c", "\n", "c", ":", " ", "1">>,
      <<"a", "=", "b", " ", "b", "=", "a">>,
      <<"a", ":", " ", "_">> }

ChainPatternSets == { EmptyDict, (Str_a :> <<Generic(Str_a)>>) }

ChainInit == /\ pc = "cs_call"
             /\ initial_term \in ChainTerms
             /\ text \in StrsUpTo(ChainAlphabet, MaxChainLen) \cup ChainExamples
             /\ patterns \in ChainPatternSets
             /\ n \in 0..MaxHops
             /\ dev \in BOOLEAN
             /\ current_term = <<>>
             /\ current_value = NoneVal
             /\ chain = <<>>
             /\ hop = 0
             /\ calls = <<>>
             /\ output = [type |-> "none", key |-> NoneVal, value |-> NoneVal, list |-> <<>>]
             /\ IdleNum /\ IdleAgg /\ IdleSearch /\ IdleFallback /\ IdleDocs /\ IdleAux

SpecChain == ChainInit /\ [][ChainNext]_vars

---------------------------------------------------------------------------
\* Claims about searching

\* The patterns bound to the term of the direct call.
BoundPatterns == RegexList(search_term, patterns)

MatchingPatterns == {k \in DOMAIN BoundPatterns : FindAllFirst(BoundPatterns[k], text).matched}

FirstCapture == FindAllFirst(BoundPatterns[Min(MatchingPatterns)], text).capture

\* C4 as stated: when a pattern bound to T matches, searching returns T
\* with the first capture of the first matching pattern, and the proximity
\* heuristic is not consulted.
C4_CustomPatternsDominate_Original ==
    (pc = "s_returned" /\ MatchingPatterns # {})
        => /\ found.key = search_term
           /\ found.value = FirstCapture
           /\ found.via = "pattern"

\* C4 (amended): when a pattern bound to T matches, searching returns T
\* with the first capture of the first matching pattern in list order,
\* stripped of leading and trailing whitespace, and the proximity
\* heuristic is not consulted.
C4_CustomPatternsDominate ==
    (pc = "s_returned" /\ MatchingPatterns # {})
        => /\ found.key = search_term
           /\ found.value = Strip(FirstCapture)
           /\ found.via = "pattern"

\* The second pattern of the list decides, in a text where the proximity
\* heuristic would have given another value.
C4_Witness ==
    /\ pc = "s_returned"
    /\ Len(BoundPatterns) = 2
    /\ MatchingPatterns = {2}
    /\ Proximity(search_term, text).value \notin {NoneVal, found.value}
    /\ found.value # <<>>

SnippetAfterTerm ==
    LET i == Min(OccurrencesCI(search_term, text))
        j == RunEnd(text, i + Len(search_term), SepChars)
    IN  SubSeq(text, j, IF Len(text) < j + SnippetMax - 1 THEN Len(text)
                        ELSE j + SnippetMax - 1)

\* The proximity heuristic returned a numeric value.
NumericProximityValue ==
    /\ pc = "s_returned"
    /\ found.via = "proximity"
    /\ found.value # NoneVal
    /\ OccurrencesCI(search_term, text) # {}
    /\ NumberStarts(SnippetAfterTerm) # {}

\* C20: a numeric value of the proximity heuristic is a whole numeric
\* literal of the text: where it stands in the text, no digit follows it
\* (for "total: 1234" the value is "1234", not its first three digits).
C20_NumericValueIsWholeLiteral ==
    NumericProximityValue =>
        LET q == Min({p \in 1..(Len(SnippetAfterTerm) - Len(found.value) + 1) :
                         SubSeq(SnippetAfterTerm, p, p + Len(found.value) - 1) = found.value})
        IN  ~IsDigitAt(SnippetAfterTerm, q + Len(found.value))

---------------------------------------------------------------------------
\* Claims about chained_search

\* C6: chained_search(term, text, n=0, dev=False, patterns) returns exactly
\* the result of a single searching(term, text, patterns) call.
C6_ZeroHopsIsSearching ==
    (pc = "cs_returned" /\ n = 0 /\ ~dev)
        => /\ Len(calls) = 1
           /\ calls[1].term = initial_term
           /\ output.type = "tuple"
           /\ output.key = searching(initial_term, text, patterns).key
           /\ output.value = searching(initial_term, text, patterns).value

\* A zero-hop call whose key is the text's spelling of the term, not the
\* caller's.
C6_Witness ==
    /\ pc = "cs_returned" /\ n = 0 /\ ~dev
    /\ output.key \notin {NoneVal, initial_term}
    /\ output.value # NoneVal

C7_Safety ==
    n >= 1 =>
        /\ Len(calls) <= n
        /\ \A j \in DOMAIN calls :
               calls[j].term = IF j = 1 THEN initial_term ELSE calls[j - 1].value
        /\ \A j \in 1..(Len(calls) - 1) :
               calls[j].key # NoneVal /\ calls[j].value # NoneVal

\* chained_search has returned or one of its actions is enabled.
CanStepOrReturned ==
    \/ pc \in {"cs_returned", "cs_call", "cs_after_loop"}
    \/ (pc = "cs_loop" /\ hop < n)

\* An upper bound on the steps chained_search has left.
StepsLeft == CASE pc = "cs_call"       -> n + 3
               [] pc = "cs_loop"       -> (n - hop) + 1
               [] pc = "cs_after_loop" -> 1
               [] OTHER                -> 0

\* C7: with n >= 1 hops chained_search calls searching at most n times,
\* each call after the first with the value resolved by the previous call
\* as its term, makes no call after one that returned a missing key or
\* value, and terminates, also when the resolved values form a cycle: it
\* has a step to take until it has returned, and every step lowers
\* StepsLeft.
C7_BoundedChainTerminates ==
    /\ [](C7_Safety /\ CanStepOrReturned)
    /\ [][StepsLeft' < StepsLeft]_vars

\* A chain that stopped on a failed hop, after a successful one, with hops
\* to spare.
C7_Witness ==
    /\ pc = "cs_returned"
    /\ Len(calls) >= 2
    /\ Len(calls) < n
    /\ calls[Len(calls)].value = NoneVal

\* The successful hops: the calls that returned a key and a value.
Successes == SelectSeq(calls, LAMBDA c : ~Falsy(c.key) /\ ~Falsy(c.value))

\* C8: for n >= 1, trace mode returns the list of the successful
\* (key, value) hops in the order made (empty when the first hop fails);
\* non-trace mode returns (initial term, value of the last successful hop)
\* when a hop succeeded and (None, None) otherwise.
C8_ChainResult ==
    (pc = "cs_returned" /\ n >= 1) =>
        IF dev
          THEN /\ output.type = "list"
               /\ output.list = [j \in 1..Len(Successes) |->
                                   <<Successes[j].key, Successes[j].value>>]
          ELSE /\ output.type = "tuple"
               /\ IF Successes = <<>>
                    THEN output.key = NoneVal /\ output.value = NoneVal
                    ELSE /\ output.key = initial_term
                         /\ output.value = Successes[Len(Successes)].value

\* A non-trace chain of two successful hops whose last matched key is not
\* the initial term.
C8_Witness ==
    /\ pc = "cs_returned" /\ ~dev
    /\ Len(Successes) >= 2
    /\ Successes[Len(Successes)].key # initial_term
    /\ output.key = initial_term

---------------------------------------------------------------------------
\* ocr_utils.fallback_table_extraction

\* x or []
OrEmpty_Identity(x) == x

OrEmpty(x) == IF x.none \/ x.items = <<>> THEN PyList(<<>>) ELSE x

\* A table: the column labels and the rows of its DataFrame.
Table(columns, rows) == [columns |-> columns, rows |-> rows]

ImageSuffixes == {".jpg", ".jpeg", ".png", ".bmp", ".tiff", ".gif"}

\* image_path.suffix.lower()
SuffixLower(sfx) == CASE sfx = ".JPG" -> ".jpg" [] sfx = ".PNG" -> ".png"
                      [] sfx = ".PDF" -> ".pdf" [] OTHER -> sfx

FlavorKeys == {"camelot_lattice", "camelot_stream", "tabula_lattice", "tabula_stream"}

\* Lines 111-116 and 119-124: the dict of four empty lists.
AllEmpty == [k \in FlavorKeys |-> PyList(<<>>)]

\* Lines 98-124: the empty locals, then the PDF to read.  img_to_pdf may
\* raise (missing or unreadable image); that and an unsupported suffix
\* return the four empty lists.
FbConvert ==
    /\ pc = "fb_call"
    /\ tables_camelot_lattice' = PyList(<<>>)
    /\ tables_camelot_stream' = PyList(<<>>)
    /\ tables_tabula_lattice' = PyList(<<>>)
    /\ tables_tabula_stream' = PyList(<<>>)
    /\ scanned' = FALSE
    /\ IF SuffixLower(image_path.suffix) \in ImageSuffixes
         THEN \/ /\ pdf_path' = [image_path EXCEPT !.suffix = ".pdf"]
                 /\ pc' = "fb_scan"
                 /\ failures' = {}
                 /\ UNCHANGED table_dict
              \/ /\ pdf_path' = NoneVal
                 /\ table_dict' = AllEmpty
                 /\ failures' = {"convert"}
                 /\ pc' = "fb_returned"
         ELSE IF SuffixLower(image_path.suffix) = ".pdf"
         THEN /\ pdf_path' = image_path
              /\ pc' = "fb_scan"
              /\ failures' = {}
              /\ UNCHANGED table_dict
         ELSE /\ pdf_path' = NoneVal
              /\ table_dict' = AllEmpty
              /\ failures' = {"unsupported"}
              /\ pc' = "fb_returned"
    /\ UNCHANGED <<image_path, numVars, aggVars, searchVars, inputVars, chainVars, docVars, auxVars>>

\* Lines 125-129 with is_scanned_pdf (216-231): True when the first page
\* has no text; a failure of PyMuPDF is caught inside and gives False.
FbScanned ==
    /\ pc = "fb_scan"
    /\ \/ /\ scanned' = image_path.scanned
          /\ UNCHANGED failures
       \/ /\ scanned' = FALSE
          /\ failures' = failures \cup {"scan"}
    /\ pc' = "fb_camelot"
    /\ UNCHANGED <<image_path, pdf_path, tables_camelot_lattice, tables_camelot_stream,
                   tables_tabula_lattice, tables_tabula_stream, table_dict,
                   numVars, aggVars, searchVars, inputVars, chainVars, docVars, auxVars>>

\* The points of an engine's try block that can raise.
EngineFailures == {"import", "lattice", "stream"}

\* A try block of two reads: the two locals after it.  fail is where it
\* raised ("none": nowhere); the handler resets both locals.
EngineTry(fail, lattice, stream) ==
    IF fail = "none" THEN <<OrEmpty(lattice), OrEmpty(stream)>>
    ELSE <<PyList(<<>>), PyList(<<>>)>>

\* Lines 130-139: Camelot, skipped for a scanned PDF.
FbCamelot ==
    /\ pc = "fb_camelot"
    /\ IF ~scanned
         THEN \E fail \in EngineFailures \cup {"none"} :
                 LET t == EngineTry(fail, image_path.camelot_lattice, image_path.camelot_stream)
                 IN  /\ tables_camelot_lattice' = t[1]
                     /\ tables_camelot_stream' = t[2]
                     /\ failures' = IF fail = "none" THEN failures
                                    ELSE failures \cup {"camelot"}
         ELSE UNCHANGED <<tables_camelot_lattice, tables_camelot_stream, failures>>
    /\ pc' = "fb_tabula"
    /\ UNCHANGED <<image_path, pdf_path, scanned, tables_tabula_lattice, tables_tabula_stream,
                   table_dict, numVars, aggVars, searchVars, inputVars, chainVars, docVars, auxVars>>

\* Lines 141-155: Tabula, always tried, and the returned dict.
FbTabula ==
    /\ pc = "fb_tabula"
    /\ \E fail \in EngineFailures \cup {"none"} :
          LET t == EngineTry(fail, image_path.tabula_lattice, image_path.tabula_stream)
          IN  /\ tables_tabula_lattice' = t[1]
              /\ tables_tabula_stream' = t[2]
              /\ failures' = IF fail = "none" THEN failures ELSE failures \cup {"tabula"}
              /\ table_dict' = [k \in FlavorKeys |->
                                   CASE k = "camelot_lattice" -> tables_camelot_lattice
                                     [] k = "camelot_stream"  -> tables_camelot_stream
                                     [] k = "tabula_lattice"  -> t[1]
                                     [] k = "tabula_stream"   -> t[2]]
    /\ pc' = "fb_returned"
    /\ UNCHANGED <<image_path, pdf_path, scanned, tables_camelot_lattice,
                   tables_camelot_stream, numVars, aggVars, searchVars, inputVars,
                   chainVars, docVars, auxVars>>

FallbackNext == FbConvert \/ FbScanned \/ FbCamelot \/ FbTabula

---------------------------------------------------------------------------
\* Inputs of fallback_table_extraction

Str_x == <<"x">>
Str_1 == <<"1">>
Str_2 == <<"2">>
Str_a1 == <<"a", "1">>

\* A table with the label "a" as a column header, one of its cells empty.
T_header == Table(<<Str_a, Str_x>>, << <<Str_1, Str_2>>, <<<<>>, Str_2>> >>)

\* T_header again, as another engine flavor spells it.
T_header_dup == Table(<<Str_A, Str_x>>, << <<Str_1, Str_2>>, <<<<>>, Str_2>> >>)

\* A table with the label "a" inside a cell only.
T_cell == Table(<<Str_x, Str_b>>, << <<Str_2, Str_a1>> >>)

\* A table with the label "a" inside two column headers.
T_two_headers == Table(<<Str_a, Str_a1>>, << <<Str_1, Str_2>> >>)

\* What a read_pdf call can hand back.
EngineOutputs == {PyNone, PyList(<<>>), PyList(<<T_header>>), PyList(<<T_header, T_cell>>)}

Suffixes == {".png", ".JPG", ".pdf", ".PDF", ".txt", ""}

\* A file on disk: its suffix, whether its first page has no text, and
\* what each engine flavor reads from it.
File(sfx, sc, cl, cs, tl, ts) ==
    [suffix |-> sfx, scanned |-> sc, camelot_lattice |-> cl, camelot_stream |-> cs,
     tabula_lattice |-> tl, tabula_stream |-> ts]

Files == {File(sfx, sc, cl, cs, tl, ts) :
             sfx \in Suffixes, sc \in BOOLEAN, cl \in EngineOutputs, cs \in EngineOutputs,
             tl \in EngineOutputs, ts \in EngineOutputs}

FallbackInit == /\ pc = "fb_call"
                /\ image_path \in Files
                /\ pdf_path = NoneVal
                /\ scanned = FALSE
                /\ tables_camelot_lattice = PyList(<<>>)
                /\ tables_camelot_stream = PyList(<<>>)
                /\ tables_tabula_lattice = PyList(<<>>)
                /\ tables_tabula_stream = PyList(<<>>)
                /\ table_dict = <<>>
                /\ failures = {}
                /\ IdleNum /\ IdleAgg /\ IdleSearch /\ IdleInput /\ IdleChain /\ IdleDocs /\ IdleAux

SpecFallback == FallbackInit /\ [][FallbackNext]_vars

---------------------------------------------------------------------------
\* Claims about fallback_table_extraction

FbControlPoints == {"fb_call", "fb_scan", "fb_camelot", "fb_tabula", "fb_returned"}

\* C10: for every input path and every combination of failures of its
\* steps, fallback_table_extraction stays inside its own control points
\* (nothing escapes to the caller) and returns a dict with exactly the four
\* flavor keys, each bound to a list and never to None; a failed engine
\* contributes two empty lists, and an unsupported type or a failed
\* conversion gives four empty lists.
C10_FallbackReturnsFourLists ==
    /\ pc \in FbControlPoints
    /\ pc = "fb_returned" =>
          /\ DOMAIN table_dict = FlavorKeys
          /\ \A k \in FlavorKeys : ~table_dict[k].none
          /\ "camelot" \in failures =>
                /\ table_dict["camelot_lattice"] = PyList(<<>>)
                /\ table_dict["camelot_stream"] = PyList(<<>>)
          /\ "tabula" \in failures =>
                /\ table_dict["tabula_lattice"] = PyList(<<>>)
                /\ table_dict["tabula_stream"] = PyList(<<>>)
          /\ failures \cap {"convert", "unsupported"} # {} => table_dict = AllEmpty

\* The scanned check and Camelot failed, Tabula's lattice read gave None
\* and its stream read gave tables: the dict still has its four lists.
C10_Witness ==
    /\ pc = "fb_returned"
    /\ {"scan", "camelot"} \subseteq failures
    /\ image_path.scanned
    /\ image_path.camelot_lattice.items # <<>>
    /\ image_path.tabula_lattice.none
    /\ table_dict["tabula_lattice"] = PyList(<<>>)
    /\ table_dict["tabula_stream"].items # <<>>

---------------------------------------------------------------------------
\* search_utils.serial_number (return_all = False)

Str_serial == <<"s", "e", "r", "i", "a", "l">>

\* Lines 103-107: the fallback word list, in order.  Its entries with
\* non-ASCII letters are left out: the texts here are ASCII, where they
\* cannot occur.
serial_words ==
    << <<"n", "o", ".", " ", "d", "e", " ", "s", "e", "r", "i", "e">>,
       <<"n", "u", "m", ".", " ", "d", "e", " ", "s", "e", "r", "i", "e">>,
       <<"s", "e", "r", "i", "e">>,
       <<"s", "e", "r", "i", "a", "l">>,
       <<"s", "e", "r", "i", "a", "l", " ", "n", "u", "m", "b", "e", "r">>,
       <<"i", "d">>,
       <<"f", "o", "l", "i", "o">>,
       <<"f", "a", "c", "t", "u", "r", "a">>,
       <<"t", "i", "c", "k", "e", "t">>,
       <<"r", "e", "c", "i", "b", "o">>,
       <<"o", "r", "d", "e", "n">>,
       <<"p", "e", "d", "i", "d", "o">>,
       <<"d", "o", "c", "u", "m", "e", "n", "t", "o">>,
       <<"c", "o", "n", "t", "r", "a", "t", "o">>,
       <<"e", "x", "p", "e", "d", "i", "e", "n", "t", "e">>,
       <<"r", "e", "g", "i", "s", "t", "r", "o">>,
       <<"u", "n", "i", "q", "u", "e", " ", "i", "d">>,
       <<"r", "e", "f", "e", "r", "e", "n", "c", "e">> >>

SerialMarks == {":", "-", "#"}                   \* [:\-#]
SerialChars == Letters \cup Digits \cup {"-", "/"}  \* [A-Z0-9\-\/] with (?i)

\* Where the group of serial_regex starts when the word matched up to
\* position j - 1 (0 if the pattern fails there): after \s*, an optional
\* mark and \s*, or, failing that, right after the first \s*.
SerialCaptureStart(txt, j) ==
    LET q == RunEnd(txt, j, Whitespace)
        r == RunEnd(txt, q + 1, Whitespace)
    IN  IF /\ q <= Len(txt) /\ txt[q] \in SerialMarks
           /\ r <= Len(txt) /\ txt[r] \in SerialChars
          THEN r
        ELSE IF q <= Len(txt) /\ txt[q] \in SerialChars THEN q
        ELSE 0

\* re.findall(serial_regex, text, re.IGNORECASE) for one word: whether the
\* list is non-empty, and its first element.
SerialWordMatch(word, txt) ==
    LET ps == {p \in OccurrencesCI(word, txt) : SerialCaptureStart(txt, p + Len(word)) # 0}
    IN  IF ps = {} THEN [matched |-> FALSE, capture |-> <<>>]
        ELSE LET q == SerialCaptureStart(txt, Min(ps) + Len(word))
             IN  [matched |-> TRUE,
                  capture |-> SubSeq(txt, q, RunEnd(txt, q, SerialChars) - 1)]

\* re.findall(regex, text, re.IGNORECASE) for a custom pattern: without
\* re.DOTALL the group of a rest pattern stops at the end of the line.
FindAllFirstLine(pat, txt) ==
    LET m == FindAllFirst(pat, txt)
    IN  IF m.matched /\ pat.kind = "rest"
          THEN [m EXCEPT !.capture = SubSeq(m.capture, 1, RunEndIn(m.capture, 1, {"\n"}) - 1)]
          ELSE m

\* Lines 109-117.
RECURSIVE SerialWords(_, _)
SerialWords(txt, k) ==
    IF k > Len(serial_words) THEN NoneVal
    ELSE LET m == SerialWordMatch(serial_words[k], txt)
         IN  IF m.matched THEN m.capture ELSE SerialWords(txt, k + 1)

\* Lines 92-100.
RECURSIVE SerialPatterns(_, _, _)
SerialPatterns(txt, regex_list, k) ==
    IF k > Len(regex_list) THEN SerialWords(txt, 1)
    ELSE LET m == FindAllFirstLine(regex_list[k], txt)
         IN  IF m.matched THEN m.capture ELSE SerialPatterns(txt, regex_list, k + 1)

serial_number(txt, pats) ==
    IF Str_serial \in DOMAIN pats THEN SerialPatterns(txt, pats[Str_serial], 1)
    ELSE SerialWords(txt, 1)

---------------------------------------------------------------------------
\* ocr_utils.comparing_tables

\* Line 167: the rows of a table that enter its signature.
SignatureRows == 8

\* re.sub(r'\s+', ' ', x)
RECURSIVE CollapseWhitespace(_)
CollapseWhitespace(s) ==
    IF s = <<>> THEN <<>>
    ELSE IF Head(s) \in Whitespace THEN <<" ">> \o CollapseWhitespace(LStrip(s))
    ELSE <<Head(s)>> \o CollapseWhitespace(Tail(s))

\* Lines 165-168: the cells of the first rows, normalized.
NormalizeDataframeForSignature(t) ==
    LET k == IF Len(t.rows) < SignatureRows THEN Len(t.rows) ELSE SignatureRows
    IN  [i \in 1..k |->
            [c \in DOMAIN t.rows[i] |-> LowerStr(Strip(CollapseWhitespace(t.rows[i][c])))]]

\* Lines 188-190.
Signature(t) ==
    << [c \in DOMAIN t.columns |-> LowerStr(Strip(t.columns[c]))],
       NormalizeDataframeForSignature(t) >>

\* A table whose normalization raises (line 192): a Camelot Table or a
\* DataFrame, by kind.
Failing(kind, columns, rows) ==
    [columns |-> columns, rows |-> rows, kind |-> kind, raises |-> TRUE]

Raises(t) == "raises" \in DOMAIN t

\* repr(table): camelot prints the shape only (<Table shape=(r, c)>),
\* pandas prints the labels and the cells as they are.
Repr(t) ==
    IF t.kind = "camelot" THEN <<"shape", Len(t.rows), Len(t.columns)>>
    ELSE <<"frame", t.columns, t.rows>>

\* Lines 185-194: what is hashed for a table.
SigHash_AllRows(t) ==
    IF Raises(t) THEN <<"repr", Repr(t)>>
    ELSE <<"signature",
           [c \in DOMAIN t.columns |-> LowerStr(Strip(t.columns[c]))],
           [i \in DOMAIN t.rows |->
               [c \in DOMAIN t.rows[i] |-> LowerStr(Strip(CollapseWhitespace(t.rows[i][c])))]]>>

SigHash(t) ==
    IF Raises(t) THEN <<"repr", Repr(t)>> ELSE <<"signature", Signature(t)>>

\* Lines 178-200: the first table of each signature, in order.
RECURSIVE UniqueFrom(_, _)
UniqueFrom(tlist, i) ==
    IF i > Len(tlist) THEN <<>>
    ELSE IF \E j \in 1..(i - 1) : SigHash(tlist[j]) = SigHash(tlist[i])
      THEN UniqueFrom(tlist, i + 1)
    ELSE <<tlist[i]>> \o UniqueFrom(tlist, i + 1)

comparing_tables(tlist) == UniqueFrom(tlist, 1)

---------------------------------------------------------------------------
\* general_utils.extract_data_from_docs

ResultPath(image, ser, key, value, path) ==
    [Image |-> image, Serial |-> ser, Key |-> key, Value |-> value, Path |-> path]

\* Line 151: " -> ".join([f"{k}:{v}" for k, v in output])
RECURSIVE PathStr(_)
PathStr(pairs) ==
    IF Len(pairs) = 1 THEN pairs[1][1] \o <<":">> \o pairs[1][2]
    ELSE pairs[1][1] \o <<":">> \o pairs[1][2] \o <<" ", "-", ">", " ">> \o PathStr(Tail(pairs))

\* A str that unpacks into two names.
Unpacks(v) == v # NoneVal /\ Len(v) = 2

\* chained_search gave a result for the term: a found pair, or in trace
\* mode a chain with at least one hop.
Concrete(out) ==
    IF out.type = "list" THEN out.list # <<>>
    ELSE ~Falsy(out.key) /\ ~Falsy(out.value)

\* Lines 148-168: what the iteration does with the output of
\* chained_search: whether it raises, the results it appends, and whether
\* it goes on to line 170.  In trace mode with n == 0 the output is the
\* tuple of searching: it is truthy, output[-1] is its value, and the
\* comprehension of line 151 unpacks the key and the value.
HandleOutput(image, ser, out, trace) ==
    IF trace
      THEN IF out.type = "list"
             THEN IF out.list = <<>>
                    THEN [raised |-> FALSE, append |-> <<>>, fallback |-> TRUE]
                    ELSE LET last == out.list[Len(out.list)]
                         IN  [raised |-> FALSE,
                              append |-> <<ResultPath(image, ser, LowerStr(Strip(last[1])),
                                                      last[2], PathStr(out.list))>>,
                              fallback |-> TRUE]
           ELSE IF Unpacks(out.value) /\ Unpacks(out.key)
             THEN [raised |-> FALSE,
                   append |-> <<ResultPath(image, ser, LowerStr(Strip(<<out.value[1]>>)),
                                           <<out.value[2]>>,
                                           PathStr(<< <<<<out.key[1]>>, <<out.key[2]>>>>,
                                                      <<<<out.value[1]>>, <<out.value[2]>>>> >>))>>,
                   fallback |-> TRUE]
           ELSE [raised |-> TRUE, append |-> <<>>, fallback |-> FALSE]
    ELSE IF ~Falsy(out.key) /\ ~Falsy(out.value)
      THEN [raised |-> FALSE,
            append |-> <<Result(image, ser, LowerStr(Strip(out.key)), out.value)>>,
            fallback |-> FALSE]
    ELSE [raised |-> FALSE, append |-> <<>>, fallback |-> TRUE]

\* Lines 192-193 and 213-214: the any(...) over results.
AlreadyIn(rs, image, key, value) ==
    \E i \in DOMAIN rs : rs[i].Image = image /\ rs[i].Key = key /\ rs[i].Value = value

\* Line 188 and line 212: term.lower() in str(x).lower()
TermIn(key, x) == OccurrencesCI(key, x) # {}

\* Lines 189-201: the rows of column c from row i on.
RECURSIVE ColumnRows(_, _, _, _, _, _, _)
ColumnRows(rs, image, ser, key, table, c, i) ==
    IF i > Len(table.rows) THEN rs
    ELSE LET value == table.rows[i][c]
         IN  ColumnRows(IF value # <<>> /\ ~AlreadyIn(rs, image, key, value)
                          THEN Append(rs, Result(image, ser, key, value)) ELSE rs,
                        image, ser, key, table, c, i + 1)

\* Lines 187-203: the columns from c on; the first matching column that
\* appended something ends the loop.
RECURSIVE HeaderScan(_, _, _, _, _, _)
HeaderScan(rs, image, ser, key, table, c) ==
    IF c > Len(table.columns) THEN rs
    ELSE IF TermIn(key, table.columns[c])
      THEN LET after == ColumnRows(rs, image, ser, key, table, c, 1)
           IN  IF after # rs THEN after
               ELSE HeaderScan(rs, image, ser, key, table, c + 1)
    ELSE HeaderScan(rs, image, ser, key, table, c + 1)

\* Lines 210-225: the cells in row order; the first new cell holding the
\* term is appended.
CellScan(rs, image, ser, key, table) ==
    LET hits == {<<i, c>> \in (DOMAIN table.rows) \X (DOMAIN table.columns) :
                    /\ TermIn(key, table.rows[i][c])
                    /\ ~AlreadyIn(rs, image, key, table.rows[i][c])}
    IN  IF hits = {} THEN rs
        ELSE LET h == CHOOSE x \in hits :
                         \A y \in hits : x[1] < y[1] \/ (x[1] = y[1] /\ x[2] <= y[2])
             IN  Append(rs, Result(image, ser, key, table.rows[h[1]][h[2]]))

\* Lines 184-229: the tables from k on, until one sets found.
RECURSIVE TableScan(_, _, _, _, _, _)
TableScan(rs, image, ser, key, tables, k) ==
    IF k > Len(tables) THEN rs
    ELSE LET byHeader == HeaderScan(rs, image, ser, key, tables[k], 1)
             byCell   == CellScan(rs, image, ser, key, tables[k])
         IN  IF byHeader # rs THEN byHeader
             ELSE IF byCell # rs THEN byCell
             ELSE TableScan(rs, image, ser, key, tables, k + 1)

\* Line 179.
FlavorOrder == <<"camelot_lattice", "camelot_stream", "tabula_lattice", "tabula_stream">>

\* Lines 179-232: the flavors from f on, until one sets found.
RECURSIVE FlavorScan(_, _, _, _, _, _)
FlavorScan(rs, image, ser, key, dict, f) ==
    IF f > Len(FlavorOrder) THEN rs
    ELSE LET tables_raw == OrEmpty(dict[FlavorOrder[f]]).items
             after      == TableScan(rs, image, ser, key, comparing_tables(tables_raw), 1)
         IN  IF after # rs THEN after
             ELSE FlavorScan(rs, image, ser, key, dict, f + 1)

\* Lines 142-144: the start of a document's iteration.
ExDoc ==
    /\ pc = "ex_doc"
    /\ di <= Len(docs)
    /\ serial' = IF searching_serial THEN serial_number(docs[di].text, patterns)
                 ELSE NoneVal
    /\ ti' = 1
    /\ pc' = "ex_term"
    /\ UNCHANGED <<docs, terms, di, searching_serial, yielded, recorded, invoked,
                   numVars, aggVars, searchVars, inputVars, chainVars, fbVars, auxVars>>

\* Lines 146-147: the next term and the call of chained_search, or the
\* next document when the terms are exhausted.
ExTerm ==
    /\ pc = "ex_term"
    /\ IF ti <= Len(terms)
         THEN /\ initial_term' = terms[ti]
              /\ text' = docs[di].text
              /\ calls' = <<>>
              /\ pc' = "cs_call"
              /\ UNCHANGED di
         ELSE /\ di' = di + 1
              /\ pc' = "ex_doc"
              /\ UNCHANGED <<initial_term, text, calls>>
    /\ UNCHANGED <<docs, terms, ti, serial, searching_serial, yielded, recorded, invoked,
                   patterns, n, dev, current_term, current_value, chain, hop, output,
                   numVars, aggVars, searchVars, fbVars, auxVars>>

\* Lines 148-171: the output of chained_search is handled; the iteration
\* raises, continues with the next term, or calls
\* fallback_table_extraction(folder_path_ / image_name).
ExHandleOutput ==
    /\ pc = "cs_returned"
    /\ di \in DOMAIN docs
    /\ LET h == HandleOutput(docs[di].image_name, serial, output, dev)
       IN  /\ results' = results \o h.append
           /\ yielded' = IF Concrete(output) THEN yielded \cup {<<di, ti>>} ELSE yielded
           /\ recorded' = IF h.append # <<>> THEN recorded \cup {<<di, ti>>} ELSE recorded
           /\ IF h.raised
                THEN /\ pc' = "ex_raised"
                     /\ UNCHANGED <<ti, invoked, image_path>>
              ELSE IF h.fallback
                THEN /\ pc' = "fb_call"
                     /\ image_path' = docs[di].file
                     /\ invoked' = invoked \cup {<<di, ti>>}
                     /\ UNCHANGED ti
              ELSE /\ pc' = "ex_term"
                   /\ ti' = ti + 1
                   /\ UNCHANGED <<invoked, image_path>>
    /\ UNCHANGED <<docs, terms, di, serial, searching_serial, ri, summed_values,
                   string_values, fbLocals, table_dict, failures,
                   numVars, searchVars, inputVars, chainVars, auxVars>>

\* Lines 172-232: the table search over the returned dict, then the next
\* term.  The dict and the frame of fallback_table_extraction are dead
\* after it.
ExTableSearch ==
    /\ pc = "fb_returned"
    /\ di \in DOMAIN docs
    /\ results' = FlavorScan(results, docs[di].image_name, serial, LowerStr(terms[ti]),
                             table_dict, 1)
    /\ ti' = ti + 1
    /\ pc' = "ex_term"
    /\ image_path' = [suffix |-> ""]
    /\ pdf_path' = NoneVal
    /\ scanned' = FALSE
    /\ tables_camelot_lattice' = PyList(<<>>)
    /\ tables_camelot_stream' = PyList(<<>>)
    /\ tables_tabula_lattice' = PyList(<<>>)
    /\ tables_tabula_stream' = PyList(<<>>)
    /\ table_dict' = <<>>
    /\ failures' = {}
    /\ UNCHANGED <<docs, terms, di, serial, searching_serial, yielded, recorded, invoked,
                   ri, summed_values, string_values,
                   numVars, searchVars, inputVars, chainVars, auxVars>>

\* Line 234.
ExReturn ==
    /\ pc = "ex_doc"
    /\ di > Len(docs)
    /\ pc' = "ex_returned"
    /\ UNCHANGED <<numVars, aggVars, searchVars, inputVars, chainVars, fbVars, docVars, auxVars>>

ExtractNext ==
    \/ ExDoc \/ ExTerm \/ ExHandleOutput \/ ExTableSearch \/ ExReturn
    \/ ChainedSearchCall \/ ChainedSearchHop \/ ChainedSearchReturn
    \/ FbConvert \/ FbScanned \/ FbCamelot \/ FbTabula

---------------------------------------------------------------------------
\* Inputs of extract_data_from_docs

Str_id == <<"i", "d">>
Str_d1 == <<"d", "1", ".", "p", "n", "g">>
Str_d2 == <<"d", "2", ".", "p", "n", "g">>
Str_d3 == <<"d", "3", ".", "p", "n", "g">>
Str_d4 == <<"d", "4", ".", "p", "n", "g">>

Doc(image_name, txt, file) == [image_name |-> image_name, text |-> txt, file |-> file]

\* "a: b" then "b: 1" on the next line; Camelot reads the header table in
\* both flavors, Tabula reads it twice and the cell table.
Doc1 == Doc(Str_d1, <<"a", ":", " ", "b", "\n", "b", ":", " ", "1">>,
            File(".png", FALSE, PyList(<<T_header>>), PyList(<<T_header_dup>>),
                 PyNone, PyList(<<T_header, T_header_dup, T_cell>>)))

\* No label in the text; a scanned page on which only Tabula finds tables.
Doc2 == Doc(Str_d2, <<"x", " ", "2">>,
            File(".png", TRUE, PyList(<<T_header>>), PyList(<<>>),
                 PyList(<<T_cell>>), PyList(<<T_header>>)))

\* A serial number and nothing else; no tables.
Doc3 == Doc(Str_d3, <<"i", "d", ":", " ", "7", "7">>,
            File(".png", FALSE, PyNone, PyList(<<>>), PyList(<<>>), PyNone))

\* No label in the text; Camelot reads a table with two headers holding
\* the label "a".
Doc4 == Doc(Str_d4, <<"x", " ", "2">>,
            File(".png", FALSE, PyList(<<T_two_headers>>), PyNone, PyNone, PyList(<<>>)))

DocLists == {<<Doc1>>, <<Doc2, Doc1>>, <<Doc3, Doc2>>, <<Doc4>>}

TermLists == {<<Str_a>>, <<Str_A, Str_b>>, <<Str_id, Str_a>>}

ExtractPatternSets ==
    { EmptyDict,
      (Str_a :> <<Generic(Str_a)>>) @@ (Str_serial :> <<Rest(Str_id)>>) }

ExtractInit == /\ pc = "ex_doc"
               /\ docs \in DocLists
               /\ terms \in TermLists
               /\ searching_serial \in BOOLEAN
               /\ n \in 0..MaxHops
               /\ dev \in BOOLEAN
               /\ patterns \in ExtractPatternSets
               /\ di = 1
               /\ ti = 0
               /\ serial = NoneVal
               /\ yielded = {}
               /\ recorded = {}
               /\ invoked = {}
               /\ results = <<>>
               /\ ri = 0
               /\ summed_values = <<>>
               /\ string_values = <<>>
               /\ text = <<>>
               /\ initial_term = <<>>
               /\ current_term = <<>>
               /\ current_value = NoneVal
               /\ chain = <<>>
               /\ hop = 0
               /\ calls = <<>>
               /\ output = [type |-> "none", key |-> NoneVal, value |-> NoneVal, list |-> <<>>]
               /\ IdleNum /\ IdleSearch /\ IdleFallback /\ IdleAux

SpecExtract == ExtractInit /\ [][ExtractNext]_vars

---------------------------------------------------------------------------
\* Claims about extract_data_from_docs

\* C9: for every document and every term, in non-trace mode and in trace
\* mode: when chained search yields a concrete result for the term, the
\* result is recorded and the table fallback extractor is not invoked for
\* that (document, term) pair.  A pair whose handling raised is left
\* aside: nothing after line 151 runs for it.
C9_ConcreteResultSkipsFallback ==
    \A pair \in yielded :
        \/ pc = "ex_raised" /\ pair = <<di, ti>>
        \/ pair \in recorded /\ pair \notin invoked

\* The step of the table search of the current (document, term) pair.
TableSearchStep == pc = "fb_returned" /\ pc' = "ex_term"

\* The unique tables of flavor f that the search iterates over.
UniqueTablesOf(f) == comparing_tables(OrEmpty(table_dict[FlavorOrder[f]]).items)

\* The search of table t would append something to the results so far.
TableAppends(t) ==
    \/ HeaderScan(results, docs[di].image_name, serial, LowerStr(terms[ti]), t, 1) # results
    \/ CellScan(results, docs[di].image_name, serial, LowerStr(terms[ti]), t) # results

\* Table k of flavor f is examined: no table before it ended the search.
Examined(f, k) ==
    \A g \in 1..f : \A j \in DOMAIN UniqueTablesOf(g) :
        (g < f \/ j < k) => ~TableAppends(UniqueTablesOf(g)[j])

\* After the step, every non-empty cell of every column of t whose header
\* holds the term is in the results under this image and key.
AllMatchingColumnsRecorded(t) ==
    \A c \in DOMAIN t.columns : \A i \in DOMAIN t.rows :
        (TermIn(LowerStr(terms[ti]), t.columns[c]) /\ t.rows[i][c] # <<>>)
            => AlreadyIn(results', docs[di].image_name, LowerStr(terms[ti]), t.rows[i][c])

\* The results the step appended repeat no (Image, Key, Value) recorded
\* before them.
NoRepeatedTableResult ==
    \A j \in (Len(results) + 1)..Len(results') :
        ~AlreadyIn(SubSeq(results', 1, j - 1), results'[j].Image, results'[j].Key,
                   results'[j].Value)

\* C18: during the table fallback for a term, a unique table the search
\* examines whose column headers hold the term gives one result for every
\* (matching column, row) pair with a non-empty cell not yet recorded, for
\* all its matching columns and not only the first one; and no table result
\* repeats an (Image, Key, Value) already recorded.
C18_AllMatchingColumnsEmitted ==
    [][TableSearchStep =>
          /\ NoRepeatedTableResult
          /\ \A f \in DOMAIN FlavorOrder : \A k \in DOMAIN UniqueTablesOf(f) :
                Examined(f, k) => AllMatchingColumnsRecorded(UniqueTablesOf(f)[k])]_vars

\* C19: extract_data_from_docs handles every (document, term) pair without
\* an unhandled error, for every hop count, both settings of trace mode and
\* every text; with trace mode on and n = 0 in particular.
C19_ExtractNeverRaises == pc # "ex_raised"

---------------------------------------------------------------------------
\* ocr_utils.comparing_tables, statement by statement

\* Everything the other functions own.
baseVars == <<numVars, aggVars, searchVars, inputVars, chainVars, fbVars, docVars, kwVars>>

\* Lines 196-197: the signatures seen after a table of signature sig.
SeenAfter_Toggle(seen, sig) == IF sig \in seen THEN seen \ {sig} ELSE seen \cup {sig}

SeenAfter(seen, sig) == seen \cup {sig}

\* Lines 178-182: None or an empty list returns []; else the locals.
CmpCall ==
    /\ pc = "ct_call"
    /\ unique_tables' = <<>>
    /\ seen_signatures' = {}
    /\ kept' = <<>>
    /\ IF tables_list = <<>>
         THEN pc' = "ct_returned" /\ ci' = 0
         ELSE pc' = "ct_loop" /\ ci' = 1
    /\ UNCHANGED <<tables_list, first_pass, baseVars, ocrVars, saveVars, mainVars>>

\* Lines 184-198: one iteration of for table in tables_list.  The hash of
\* the repr of the signature stands for the signature itself.
CmpStep ==
    /\ pc = "ct_loop"
    /\ ci <= Len(tables_list)
    /\ LET sig_hash == SigHash(tables_list[ci])
       IN  /\ IF sig_hash \notin seen_signatures
                THEN /\ unique_tables' = Append(unique_tables, tables_list[ci])
                     /\ kept' = Append(kept, ci)
                ELSE UNCHANGED <<unique_tables, kept>>
           /\ seen_signatures' = SeenAfter(seen_signatures, sig_hash)
    /\ ci' = ci + 1
    /\ UNCHANGED <<pc, tables_list, first_pass, baseVars, ocrVars, saveVars, mainVars>>

\* Line 200.
CmpReturn ==
    /\ pc = "ct_loop"
    /\ ci > Len(tables_list)
    /\ pc' = "ct_returned"
    /\ UNCHANGED <<cmpVars, baseVars, ocrVars, saveVars, mainVars>>

\* comparing_tables is called on the list it has just returned.
CmpAgain ==
    /\ pc = "ct_returned"
    /\ first_pass = <<>>
    /\ first_pass' = <<[tables_list |-> tables_list, unique_tables |-> unique_tables,
                        kept |-> kept]>>
    /\ tables_list' = unique_tables
    /\ pc' = "ct_call"
    /\ UNCHANGED <<unique_tables, seen_signatures, ci, kept, baseVars, ocrVars, saveVars, mainVars>>

CompareNext == CmpCall \/ CmpStep \/ CmpReturn \/ CmpAgain

---------------------------------------------------------------------------
\* Inputs of comparing_tables

MaxTables == 3

\* T_cell as another flavor spells it: letter case and spacing differ.
T_cell_dup == Table(<<Str_x, <<" ", "B">>>>, << <<Str_2, <<"A", "1", " ">>>> >>)

\* Nine rows; the two tables differ in the ninth only.
T_long == Table(<<Str_x>>, [i \in 1..9 |-> <<Str_1>>])

T_long_tail == Table(<<Str_x>>, [i \in 1..9 |-> IF i = 9 THEN <<Str_2>> ELSE <<Str_1>>])

\* The same eight rows, and a table that differs in the eighth.
T_eighth == Table(<<Str_x>>, [i \in 1..8 |-> IF i = 8 THEN <<Str_2>> ELSE <<Str_1>>])

\* Camelot tables of one shape and different cells, and the two header
\* tables as DataFrames, all four failing to normalize.
T_failing == Failing("camelot", <<Str_x, Str_b>>, << <<Str_1, Str_2>> >>)

T_failing_other == Failing("camelot", <<Str_x, Str_b>>, << <<Str_2, Str_a1>> >>)

T_failing_header == Failing("dataframe", T_header.columns, T_header.rows)

T_failing_header_dup == Failing("dataframe", T_header_dup.columns, T_header_dup.rows)

TablePool == {T_header, T_header_dup, T_cell, T_cell_dup, T_long, T_long_tail, T_eighth,
              T_failing, T_failing_other, T_failing_header, T_failing_header_dup}

RECURSIVE TableListsUpTo(_)
TableListsUpTo(len) ==
    IF len = 0 THEN {<<>>}
    ELSE LET shorter == TableListsUpTo(len - 1)
         IN  shorter \cup {Append(q, t) : q \in {r \in shorter : Len(r) = len - 1},
                                            t \in TablePool}

CompareInit == /\ pc = "ct_call"
               /\ tables_list \in TableListsUpTo(MaxTables)
               /\ unique_tables = <<>>
               /\ seen_signatures = {}
               /\ ci = 0
               /\ kept = <<>>
               /\ first_pass = <<>>
               /\ IdleNum /\ IdleAgg /\ IdleSearch /\ IdleInput /\ IdleChain
               /\ IdleFallback /\ IdleDocs /\ IdleOcr /\ IdleSave /\ IdleMain /\ IdleKeywords

SpecCompare == CompareInit /\ [][CompareNext]_vars

---------------------------------------------------------------------------
\* Claims about comparing_tables

\* C11: comparing_tables is idempotent: called on the list it returned, it
\* returns that list again, every table kept at its position (the same
\* objects in the same order).
C11_ComparingTablesIdempotent ==
    (pc = "ct_returned" /\ first_pass # <<>>)
        => /\ tables_list = first_pass[1].unique_tables
           /\ unique_tables = tables_list
           /\ kept = [i \in 1..Len(tables_list) |-> i]

\* The first call dropped a table of a list of three, and the second call
\* has returned.
C11_Witness ==
    /\ pc = "ct_returned"
    /\ first_pass # <<>>
    /\ Len(first_pass[1].tables_list) = 3
    /\ Len(unique_tables) = 2

\* The first rows of a table that count for its signature, normalized:
\* lowercased, trimmed, inner whitespace collapsed.
ClaimRows(t) ==
    [i \in 1..(IF Len(t.rows) < 8 THEN Len(t.rows) ELSE 8) |->
        [c \in DOMAIN t.rows[i] |-> LowerStr(Strip(CollapseWhitespace(t.rows[i][c])))]]

\* The column headers of a table, normalized: trimmed and lowercased.
ClaimHeaders(t) == [c \in DOMAIN t.columns |-> LowerStr(Strip(t.columns[c]))]

SameNormalized(t, u) == ClaimHeaders(t) = ClaimHeaders(u) /\ ClaimRows(t) = ClaimRows(u)

\* The result is the subsequence of the argument at the positions kept.
KeptSubsequence ==
    /\ Len(kept) = Len(unique_tables)
    /\ \A i \in DOMAIN kept :
          /\ kept[i] \in DOMAIN tables_list
          /\ unique_tables[i] = tables_list[kept[i]]
          /\ i > 1 => kept[i - 1] < kept[i]

Dropped(j) == j \in DOMAIN tables_list /\ \A i \in DOMAIN kept : kept[i] # j

\* C12 as stated: comparing_tables(L) is the subsequence of L made of the
\* first table of each signature: no two tables of the result have the
\* same normalized headers and first 8 rows, and a table is dropped
\* exactly when an earlier table of L has them.
C12_FirstOfEachSignature_Original ==
    pc = "ct_returned"
        => /\ KeptSubsequence
           /\ \A i, j \in DOMAIN unique_tables :
                 i < j => ~SameNormalized(unique_tables[i], unique_tables[j])
           /\ \A j \in DOMAIN tables_list :
                 Dropped(j) <=> \E i \in 1..(j - 1) :
                                   SameNormalized(tables_list[i], tables_list[j])

\* Two tables are duplicates: both normalize and have the same normalized
\* headers and first 8 rows, or both fail to normalize and have the same
\* repr.
Duplicates(t, u) ==
    IF Raises(t) \/ Raises(u) THEN Raises(t) /\ Raises(u) /\ Repr(t) = Repr(u)
    ELSE SameNormalized(t, u)

\* C12 (amended): comparing_tables(L) is the subsequence of L made of the
\* first table of each signature, original objects in first-seen order.
\* For tables that normalize, the signature is the normalized headers and
\* the normalized first 8 rows (later rows are ignored); a table whose
\* normalization fails is compared by its repr instead, and only with
\* other such tables.  No two tables of the result are duplicates in
\* this sense and a table is dropped exactly when an earlier table of L
\* is a duplicate of it.
C12_FirstOfEachSignature ==
    pc = "ct_returned"
        => /\ KeptSubsequence
           /\ \A i, j \in DOMAIN unique_tables :
                 i < j => ~Duplicates(unique_tables[i], unique_tables[j])
           /\ \A j \in DOMAIN tables_list :
                 Dropped(j) <=> \E i \in 1..(j - 1) :
                                   Duplicates(tables_list[i], tables_list[j])

\* A table that differs from the first in its ninth row only was dropped,
\* and a table that fails to normalize stands between them.
C12_Witness ==
    /\ pc = "ct_returned"
    /\ first_pass = <<>>
    /\ tables_list = <<T_long, T_failing_header, T_long_tail>>
    /\ kept = <<1, 2>>

---------------------------------------------------------------------------
\* ocr_utils.process_image and ocr_utils.run_clean_and_ocr

\* A page of the batch: its file name, the text Tesseract reads on it,
\* whether its skew exceeds one degree, and the file for the table engines.
Page(image_name, raw, skewed, file) ==
    [image_name |-> image_name, raw |-> raw, skewed |-> skewed, file |-> file]

\* The steps of process_image that can fail on a page: the path is missing
\* (line 55) or not a file (58), cv2.imread gives None (17) or the
\* preprocessing raises (24), the skew detection raises (64), the rotation
\* raises (67, only run for a skewed page), Tesseract fails (72), the
\* conversion or decoding raises (75).
StepsOf(page) ==
    {"missing", "notfile", "unreadable", "preprocess", "skew", "ocr", "decode"}
        \cup (IF page.skewed THEN {"rotate"} ELSE {})

\* What a task gives: a text, or the exception it raised.
Returned(txt) == [raised |-> FALSE, text |-> txt]
RaisedIn(step) == [raised |-> TRUE, text |-> <<>>, step |-> step]

\* Lines 55-77.  Lines 64 and 67 stand outside any try.
process_image_AllCaught(page, fail) ==
    IF fail = "none" THEN Returned(LowerStr(Strip(page.raw))) ELSE Returned(<<>>)

process_image(page, fail) ==
    IF fail = "none" THEN Returned(LowerStr(Strip(page.raw)))
    ELSE IF fail \in {"skew", "rotate"} THEN RaisedIn(fail)
    ELSE Returned(<<>>)

\* Lines 208-211: the first pool.map calls process_image without its
\* language argument; every task raises TypeError and the except branch
\* logs a warning.  Line 212 binds the language.
RcFirstPass ==
    /\ pc = "rc_call"
    /\ pc' = "rc_map"
    /\ slots' = <<>>
    /\ finish_order' = <<>>
    /\ step_failed' = <<>>
    /\ UNCHANGED <<image_paths, texts, cmpVars, baseVars, saveVars, mainVars>>

\* image_utils.multiprocesing_, line 107: a task of pool.map finishes;
\* the tasks finish in any order.
Worker ==
    /\ pc = "rc_map"
    /\ \E i \in (DOMAIN image_paths) \ (DOMAIN slots) :
       \E fail \in StepsOf(image_paths[i]) \cup {"none"} :
          /\ slots' = (i :> process_image(image_paths[i], fail)) @@ slots
          /\ step_failed' = (i :> fail) @@ step_failed
          /\ finish_order' = Append(finish_order, i)
    /\ UNCHANGED <<pc, image_paths, texts, cmpVars, baseVars, saveVars, mainVars>>

\* Line 107: the list pool.map returns, given what the tasks gave and the
\* order they finished in.
MapResult_CompletionOrder(given, order) == [k \in DOMAIN order |-> given[order[k]].text]

MapResult(given, order) == [i \in DOMAIN given |-> given[i].text]

\* image_utils.py 107-108 and ocr_utils.py 213-214: pool.map returns the
\* results or re-raises the exception of a task; line 213 stands outside
\* any try.
MapReturn ==
    /\ pc = "rc_map"
    /\ DOMAIN slots = DOMAIN image_paths
    /\ IF \E i \in DOMAIN slots : slots[i].raised
         THEN pc' = "rc_raised" /\ UNCHANGED texts
         ELSE pc' = "rc_returned" /\ texts' = MapResult(slots, finish_order)
    /\ UNCHANGED <<image_paths, slots, finish_order, step_failed, cmpVars, baseVars, saveVars, mainVars>>

OcrNext == RcFirstPass \/ Worker \/ MapReturn

---------------------------------------------------------------------------
\* Inputs of run_clean_and_ocr

\* The pages of Doc1, Doc2 and Doc3 as Tesseract reads them, before
\* text.lower().strip().
Page1 == Page(Str_d1, <<"A", ":", " ", "b", "\n", "B", ":", " ", "1", "\n">>, TRUE, Doc1.file)

Page2 == Page(Str_d2, <<" ", "x", " ", "2">>, FALSE, Doc2.file)

Page3 == Page(Str_d3, <<"I", "D", ":", " ", "7", "7">>, FALSE, Doc3.file)

Batches == {<<Page1>>, <<Page2, Page1>>, <<Page3, Page2>>, <<Page1, Page2, Page3>>}

OcrInit == /\ pc = "rc_call"
           /\ image_paths \in Batches
           /\ slots = <<>>
           /\ finish_order = <<>>
           /\ step_failed = <<>>
           /\ texts = <<>>
           /\ IdleNum /\ IdleAgg /\ IdleSearch /\ IdleInput /\ IdleChain
           /\ IdleFallback /\ IdleDocs /\ IdleCompare /\ IdleSave /\ IdleMain /\ IdleKeywords

SpecOcr == OcrInit /\ [][OcrNext]_vars

---------------------------------------------------------------------------
\* Claims about run_clean_and_ocr

\* C13: a failure of any step of process_image on an image gives the empty
\* string for that image and is not propagated: the batch is never
\* aborted, and run_clean_and_ocr returns a text for every image, the
\* page's text for each image without a failure.
C13_FailingImageGivesEmptyText ==
    /\ pc # "rc_raised"
    /\ pc = "rc_returned" =>
          /\ DOMAIN texts = DOMAIN image_paths
          /\ \A i \in DOMAIN texts :
                texts[i] = IF step_failed[i] = "none"
                             THEN LowerStr(Strip(image_paths[i].raw)) ELSE <<>>

---------------------------------------------------------------------------
\* excel_utils.save_results_if_any

\* Line 20: the call of final_dict(results).
SaveCall ==
    /\ pc = "sv_call"
    /\ ri' = 0
    /\ summed_values' = EmptyDict
    /\ string_values' = EmptyDict
    /\ pc' = "fd_loop"
    /\ UNCHANGED <<results, numVars, searchVars, inputVars, chainVars, fbVars, docVars,
                   auxVars>>

\* Line 21: if summed_values or string_values.
AnyAggregate_SummedOnly(summed, strings) == DOMAIN summed # {}

AnyAggregate(summed, strings) == DOMAIN summed # {} \/ DOMAIN strings # {}

\* Lines 21-31 with save_multiple_to_excel (5-16): the spreadsheet is
\* written, or the writer raises (no xlsxwriter, a path that cannot be
\* written) and nothing is logged or returned; with no aggregate the
\* message is logged and False returned.
SaveDecide ==
    /\ pc = "fd_returned"
    /\ excel_file # ""
    /\ IF AnyAggregate(summed_values, string_values)
         THEN \/ /\ written' = TRUE
                 /\ save_log' = Append(save_log, "Results saved to " \o excel_file \o ".xlsx")
                 /\ save_ret' = "True"
                 /\ pc' = "sv_returned"
              \/ /\ pc' = "sv_raised"
                 /\ UNCHANGED <<written, save_log, save_ret>>
         ELSE /\ save_log' = Append(save_log, "No matches found.")
              /\ save_ret' = "False"
              /\ pc' = "sv_returned"
              /\ UNCHANGED written
    /\ UNCHANGED <<excel_file, aggVars, numVars, searchVars, inputVars, chainVars, fbVars,
                   docVars, cmpVars, ocrVars, mainVars, kwVars>>

SaveNext == SaveCall \/ FinalDictLoop \/ FinalDictReturn \/ SaveDecide

SaveInit == /\ pc = "sv_call"
            /\ results \in StrsUpTo(AggEntries, MaxResults)
            /\ ri = 0
            /\ summed_values = EmptyDict
            /\ string_values = EmptyDict
            /\ excel_file = "out"
            /\ written = FALSE
            /\ save_log = <<>>
            /\ save_ret = "none"
            /\ IdleNum /\ IdleSearch /\ IdleInput /\ IdleChain /\ IdleFallback /\ IdleDocs
            /\ IdleCompare /\ IdleOcr /\ IdleMain /\ IdleKeywords

SpecSave == SaveInit /\ [][SaveNext]_vars

---------------------------------------------------------------------------
\* Claims about save_results_if_any

\* At least one of the two aggregates of the results is non-empty.
SomeAggregate == DOMAIN summed_values # {} \/ DOMAIN string_values # {}

SaveEnded == pc \in {"sv_returned", "sv_raised"}

---------------------------------------------------------------------------
\* main.main

\* What lines 35-40 can end with: the arguments are parsed; argparse
\* prints the help and raises SystemExit(0); argparse rejects the command
\* line and raises SystemExit(2); an Exception is raised (keywords.json
\* that is not a mapping, for one).
ParseOutcomes == {"parsed", "help", "usage", "Exception"}

\* Lines 56-58: except Exception catches the exception that left the try
\* body, or lets it pass.
Caught_Everything(exc) == TRUE

Caught(exc) == exc = "Exception"

\* The status the interpreter ends with: sys.exit(1) of line 58 after a
\* caught exception, the code of a SystemExit that passed, 0 at the end of
\* the script.
StatusOf(exc) ==
    IF exc = "none" THEN 0
    ELSE IF Caught(exc) THEN 1
    ELSE IF exc = "usage" THEN 2
    ELSE 0

\* Lines 35-40.
MainParse ==
    /\ pc = "m_parse"
    /\ \E outcome \in ParseOutcomes :
          IF outcome = "parsed" THEN pc' = "m_prepare" /\ UNCHANGED escaped
          ELSE pc' = "m_raised" /\ escaped' = outcome
    /\ UNCHANGED <<folder_path_, exit_status, cleanup_runs, cleaned, baseVars, cmpVars,
                   ocrVars, saveVars>>

\* Lines 42-43: the working folder and the image names, or
\* FileNotFoundError with both locals as line 31-32 left them.
MainPrepare ==
    /\ pc = "m_prepare"
    /\ \/ /\ folder_path_' = <<"working_folder">>
          /\ pc' = "rc_call"
          /\ UNCHANGED escaped
       \/ /\ pc' = "m_raised"
          /\ escaped' = "Exception"
          /\ UNCHANGED folder_path_
    /\ UNCHANGED <<exit_status, cleanup_runs, cleaned, baseVars, cmpVars, ocrVars, saveVars>>

\* Lines 45-52: run_clean_and_ocr has returned; extract_data_from_docs is
\* called with zip(image_names, texts, image_paths).  The order the tasks
\* finished in is not kept.
MainExtractCall ==
    /\ pc = "rc_returned"
    /\ folder_path_ # NoneVal
    /\ docs' = [i \in DOMAIN texts |->
                   Doc(image_paths[i].image_name, texts[i], image_paths[i].file)]
    /\ di' = 1
    /\ ti' = 0
    /\ results' = <<>>
    /\ pc' = "ex_doc"
    /\ finish_order' = <<>>
    /\ step_failed' = <<>>
    /\ UNCHANGED <<terms, serial, searching_serial, yielded, recorded, invoked,
                   ri, summed_values, string_values, image_paths, slots, texts,
                   numVars, searchVars, inputVars, chainVars, fbVars, cmpVars,
                   saveVars, mainVars, kwVars>>

\* Line 54: save_results_if_any(results, args.excel).
MainSaveCall ==
    /\ pc = "ex_returned"
    /\ folder_path_ # NoneVal
    /\ pc' = "sv_call"
    /\ UNCHANGED <<baseVars, auxVars>>

\* An exception of run_clean_and_ocr, extract_data_from_docs or
\* save_results_if_any leaves the try body.
MainRaise ==
    /\ pc \in {"rc_raised", "ex_raised", "sv_raised"}
    /\ folder_path_ # NoneVal
    /\ pc' = "m_raised"
    /\ escaped' = "Exception"
    /\ UNCHANGED <<folder_path_, exit_status, cleanup_runs, cleaned, baseVars, cmpVars,
                   ocrVars, saveVars>>

\* Lines 56-61 and general_utils.safe_cleanup (251-259): the except
\* clause where it applies, then the finally clause; safe_cleanup removes
\* the temporary files when there is a folder and a name, and swallows its
\* own errors.  Then the process ends.
MainFinally ==
    /\ \/ pc = "m_raised"
       \/ pc = "sv_returned" /\ folder_path_ # NoneVal
    /\ cleanup_runs' = cleanup_runs + 1
    /\ IF folder_path_ # NoneVal /\ image_paths # <<>>
         THEN cleaned' \in BOOLEAN
         ELSE UNCHANGED cleaned
    /\ exit_status' = StatusOf(escaped)
    /\ pc' = "m_exited"
    /\ UNCHANGED <<folder_path_, escaped, baseVars, cmpVars, ocrVars, saveVars>>

MainNext ==
    \/ MainParse \/ MainPrepare \/ MainExtractCall \/ MainSaveCall \/ MainRaise
    \/ MainFinally
    \/ RcFirstPass \/ Worker \/ MapReturn
    \/ ExDoc \/ ExTerm \/ ExHandleOutput \/ ExTableSearch \/ ExReturn
    \/ ChainedSearchCall \/ ChainedSearchHop \/ ChainedSearchReturn
    \/ FbConvert \/ FbScanned \/ FbCamelot \/ FbTabula
    \/ SaveCall \/ FinalDictLoop \/ FinalDictReturn \/ SaveDecide

\* The folder of the run and the command line: the pages, the terms of
\* the document type, -s, -n, -v, the patterns and -e.
MainBatches == {<<Page1>>, <<Page2, Page1>>}

MainInit == /\ pc = "m_parse"
            /\ image_paths \in MainBatches
            /\ terms \in TermLists
            /\ searching_serial \in BOOLEAN
            /\ n \in 0..MaxHops
            /\ dev \in BOOLEAN
            /\ patterns \in ExtractPatternSets
            /\ excel_file = "out"
            /\ docs = <<>>
            /\ di = 0
            /\ ti = 0
            /\ serial = NoneVal
            /\ yielded = {}
            /\ recorded = {}
            /\ invoked = {}
            /\ text = <<>>
            /\ initial_term = <<>>
            /\ current_term = <<>>
            /\ current_value = NoneVal
            /\ chain = <<>>
            /\ hop = 0
            /\ calls = <<>>
            /\ output = [type |-> "none", key |-> NoneVal, value |-> NoneVal, list |-> <<>>]
            /\ slots = <<>>
            /\ finish_order = <<>>
            /\ step_failed = <<>>
            /\ texts = <<>>
            /\ written = FALSE
            /\ save_log = <<>>
            /\ save_ret = "none"
            /\ IdleNum /\ IdleAgg /\ IdleSearch /\ IdleFallback /\ IdleCompare /\ IdleMain /\ IdleKeywords

SpecMain == MainInit /\ [][MainNext]_vars

---------------------------------------------------------------------------
\* Claims about main

\* run_clean_and_ocr returned one text per path, each the result of
\* process_image on the path at its position.
TextsInInputOrder ==
    texts # <<>> =>
        /\ DOMAIN texts = DOMAIN image_paths
        /\ \A i \in DOMAIN texts :
              /\ texts[i] = slots[i].text
              /\ step_failed # <<>> =>
                    texts[i] = process_image(image_paths[i], step_failed[i]).text

\* A step that appends results appends them under the name of the page
\* whose text and tables are being searched.
AppendsUnderOwnImage ==
    Len(results') > Len(results) =>
        /\ text = slots[di].text
        /\ docs[di].text = slots[di].text
        /\ docs[di].file = image_paths[di].file
        /\ \A k \in (Len(results) + 1)..Len(results') :
              results'[k].Image = image_paths[di].image_name

\* C14: whatever the order in which the tasks of pool.map finish,
\* run_clean_and_ocr returns one text per input path with texts[i] the
\* OCR result of image_paths[i], and every result extract_data_from_docs
\* records carries the Image name of the page whose text produced it.
C14_TextsFollowInputOrder ==
    /\ [](TextsInInputOrder)
    /\ [][AppendsUnderOwnImage]_vars

\* The task of the second page finished first; both pages gave a text.
C14_Witness ==
    /\ pc = "rc_returned"
    /\ finish_order = <<2, 1>>
    /\ texts[1] # <<>>
    /\ texts[2] # <<>>
    /\ texts[1] # texts[2]

MainEnded == pc = "m_exited"

\* C17 as stated: on every path of main safe_cleanup runs exactly once
\* before the process ends; the status is 1 exactly when an exception left
\* the try body and 0 otherwise (a run that only printed the help counts
\* as a success), whatever happens inside the cleanup.
C17_CleanupOnceAndStatus_Original ==
    /\ cleanup_runs <= 1
    /\ ~MainEnded => exit_status = -1
    /\ MainEnded =>
          /\ cleanup_runs = 1
          /\ exit_status = (IF escaped \in {"none", "help"} THEN 0 ELSE 1)

\* C17 (amended): on every path of main safe_cleanup runs exactly once
\* before the process ends, and an error inside it never changes the
\* status.  The status is 1 exactly when an Exception left the try body
\* (at any stage from argument parsing to saving); when argparse itself
\* ends the run, its SystemExit passes the except clause and the status is
\* argparse's: 2 for a rejected command line, 0 for the help; the status
\* is 0 on success.
C17_CleanupOnceAndStatus ==
    /\ cleanup_runs <= 1
    /\ ~MainEnded => exit_status = -1
    /\ MainEnded =>
          /\ cleanup_runs = 1
          /\ exit_status = (CASE escaped = "Exception" -> 1
                              [] escaped = "usage" -> 2
                              [] OTHER -> 0)

\* The spreadsheet was written, the cleanup failed inside, and the process
\* ended with status 0 after one call of safe_cleanup.
C17_Witness ==
    /\ MainEnded
    /\ written
    /\ ~cleaned
    /\ cleanup_runs = 1
    /\ exit_status = 0

---------------------------------------------------------------------------
\* main.normalize_keywords and the pattern lookup of searching

\* The entry of one document type in keywords.json: a list of terms, or a
\* mapping from term to patterns.
KeywordList(labels) == [form |-> "list", terms |-> labels, dict |-> EmptyDict]
KeywordDict(d)      == [form |-> "dict", terms |-> <<>>, dict |-> d]

\* Lines 73-78: the list form, term by term from position k on.
RECURSIVE TermDict(_, _, _)
TermDict(labels, k, term_dict) ==
    IF k > Len(labels) THEN term_dict
    ELSE TermDict(labels, k + 1,
                  DictPut(term_dict, LowerStr(labels[k]), <<Generic(labels[k])>>))

\* Lines 72-82, for one document type, and line 40 of main.
normalize_keywords(entry) ==
    IF entry.form = "list" THEN TermDict(entry.terms, 1, EmptyDict)
    ELSE IF entry.form = "dict" THEN entry.dict
    ELSE EmptyDict

\* main, lines 36 and 40: patterns is the normalized entry.
NormalizeKeywords ==
    /\ pc = "kw_call"
    /\ patterns' = normalize_keywords(all_keywords)
    /\ pc' = "s_call"
    /\ UNCHANGED <<text, searchVars, numVars, aggVars, chainVars, fbVars, docVars, auxVars>>

KeywordsNext == NormalizeKeywords \/ Searching

KeywordAlphabet == {"t", "T", "1", ":"}

\* keywords.json entries: lists and mappings, with lower-case and
\* upper-case labels.
KeywordEntries ==
    { KeywordList(<<Str_t>>),
      KeywordList(<<Str_T>>),
      KeywordList(<<Str_a, Str_T>>),
      KeywordDict(Str_t :> <<Rest(Str_t)>>),
      KeywordDict(Str_T :> <<Rest(Str_T)>>),
      KeywordDict((Str_a :> <<Generic(Str_a)>>) @@ (Str_T :> <<Rest(<<"1">>), Rest(Str_T)>>)) }

KeywordsInit == /\ pc = "kw_call"
                /\ all_keywords \in KeywordEntries
                /\ search_term \in SearchTerms
                /\ text \in StrsUpTo(KeywordAlphabet, MaxTextLen) \cup SearchExamples
                /\ patterns = EmptyDict
                /\ found = [key |-> NoneVal, value |-> NoneVal, via |-> "none"]
                /\ IdleNum /\ IdleAgg /\ IdleChain /\ IdleFallback /\ IdleDocs
                /\ IdleCompare /\ IdleOcr /\ IdleSave /\ IdleMain

SpecKeywords == KeywordsInit /\ [][KeywordsNext]_vars

\* The labels of an entry as the file spells them, and the patterns the
\* entry binds to a label.
EntryKeys(entry) ==
    IF entry.form = "list" THEN Range(entry.terms) ELSE DOMAIN entry.dict

KeyPatterns(entry, key) ==
    IF entry.form = "list" THEN <<Generic(key)>> ELSE entry.dict[key]

\* C15: the lookup of a term's custom patterns ignores letter case: for
\* every term and every key of the document type's entry equal to it up to
\* letter case, searching returns what that key's patterns give, in the
\* list form and in the mapping form.
C15_PatternLookupIgnoresCase ==
    (pc = "s_returned" /\ all_keywords # NoKeywords) =>
        \A key \in EntryKeys(all_keywords) :
            LowerStr(key) = LowerStr(search_term) =>
                found = SearchPatterns(search_term, text, KeyPatterns(all_keywords, key), 1)

====
